---------------------------- MODULE Spec2Model ----------------------------
(***************************************************************************)
(* A model of the Cursor agent scripts: the identifier extractors, the     *)
(* JSON object finder and summarizer of cursor_agents_cli.py, and the      *)
(* fetcher, the structured-data extractor and the alternate-endpoint loop  *)
(* of cursor_agent_fetcher.py.                                             *)
(*                                                                         *)
(* Text is modelled character by character: a Python str is a sequence of  *)
(* one-character strings, so that regular-expression search, case folding, *)
(* query-string splitting and percent-decoding are computed, not assumed.  *)
(* Each component has its own specification (SpecUrl, SpecFind, ...); the  *)
(* variables of the other components stay at their idle values.            *)
(***************************************************************************)
EXTENDS Integers, Sequences, FiniteSets, TLC

VARIABLES
    \* identifier extraction (parse_bcid_from_url, extract_agent_id)
    url_in, url_called, parsed_bcid, extracted_agent_id,
    \* the object finder (iterate_json_nodes, find_bc_objects)
    data, bcid_filter, find_pc, visited, results,
    \* the first CLI (cursor_agent_fetcher.main, fetch_agent_data,
    \* try_alternative_endpoints)
    args, fpc, agent_data, alt_data, alt_idx, requests, last_outcome,
    last_fetch, printed, saved, exit_code,
    \* the second CLI (cursor_agents_cli.main)
    cli_args, cli_pc, cli_response, cli_data, cli_file, cli_stdout, cli_exit,
    \* the structured-data extractor (extract_agent_info)
    html_content, extract_pc, extracted_data,
    \* the summariser (summarize_object)
    obj, sum_pc, summary, obj_after,
    \* the content decoder (decode_content)
    raw_content, content_kind, source_text, decode_pc, decoded,
    \* the web viewer (web_viewer.py): the store, the clock, and per request
    \* handler its position, url, fetched result, key and response
    agent_data_store, clock, fetches, store_writes, wpc, wurl, wdata, wkey, wresp,
    viewed

urlVars == <<url_in, url_called, parsed_bcid, extracted_agent_id>>

findVars == <<data, bcid_filter, find_pc, visited, results>>

fetcherVars ==
    <<args, fpc, agent_data, alt_data, alt_idx, requests, last_outcome,
      last_fetch, printed, saved, exit_code>>

cliVars ==
    <<cli_args, cli_pc, cli_response, cli_data, cli_file, cli_stdout, cli_exit>>

extractVars == <<html_content, extract_pc, extracted_data>>

sumVars == <<obj, sum_pc, summary, obj_after>>

decodeVars == <<raw_content, content_kind, source_text, decode_pc, decoded>>

webVars ==
    <<agent_data_store, clock, fetches, store_writes, wpc, wurl, wdata, wkey, wresp,
      viewed>>

vars ==
    <<urlVars, findVars, fetcherVars, cliVars, extractVars, sumVars, decodeVars,
      webVars>>

\* What the actions of one component leave alone: the other components.
UrlFrame ==
    UNCHANGED <<findVars, fetcherVars, cliVars, extractVars,
                sumVars, decodeVars, webVars>>

FindFrame ==
    UNCHANGED <<urlVars, fetcherVars, cliVars, extractVars,
                sumVars, decodeVars, webVars>>

FetcherFrame ==
    UNCHANGED <<urlVars, findVars, cliVars, extractVars,
                sumVars, decodeVars, webVars>>

CliFrame ==
    UNCHANGED <<urlVars, findVars, fetcherVars, extractVars,
                sumVars, decodeVars, webVars>>

ExtractFrame ==
    UNCHANGED <<urlVars, findVars, fetcherVars, cliVars,
                sumVars, decodeVars, webVars>>

SumFrame ==
    UNCHANGED <<urlVars, findVars, fetcherVars, cliVars,
                extractVars, decodeVars, webVars>>

DecodeFrame ==
    UNCHANGED <<urlVars, findVars, fetcherVars, cliVars,
                extractVars, sumVars, webVars>>

WebFrame ==
    UNCHANGED <<urlVars, findVars, fetcherVars, cliVars,
                extractVars, sumVars, decodeVars>>

\* Python's None where a str is expected: a one-item sequence that is no
\* string, since the items of a string are single characters.
NONE == <<"None">>

\* An optional value of any other type: Nothing is None, Some(x) is x.
Nothing == <<>>
Some(x) == <<x>>

(***************************************************************************)
(* Characters and strings                                                  *)
(***************************************************************************)

LowerLetters ==
    <<"a","b","c","d","e","f","g","h","i","j","k","l","m",
      "n","o","p","q","r","s","t","u","v","w","x","y","z">>

UpperLetters ==
    <<"A","B","C","D","E","F","G","H","I","J","K","L","M",
      "N","O","P","Q","R","S","T","U","V","W","X","Y","Z">>

\* The printable ASCII characters, code 32 (space) to 126 (~), in code order
\* (code 96, the grave accent, is written as a token).
Ascii ==
    <<" ","!","\"","#","$","%","&","'","(",")","*","+",",","-",".","/",
      "0","1","2","3","4","5","6","7","8","9",":",";","<","=",">","?",
      "@","A","B","C","D","E","F","G","H","I","J","K","L","M","N","O",
      "P","Q","R","S","T","U","V","W","X","Y","Z","[","\\","]","^","_",
      "GRAVE","a","b","c","d","e","f","g","h","i","j","k","l","m","n","o",
      "p","q","r","s","t","u","v","w","x","y","z","{","|","}","~">>

HexChars == <<"0","1","2","3","4","5","6","7","8","9","a","b","c","d","e","f">>

\* str.lower() on one character.
LowerChar(c) ==
    IF \E i \in 1..Len(UpperLetters) : UpperLetters[i] = c
    THEN LowerLetters[CHOOSE i \in 1..Len(UpperLetters) : UpperLetters[i] = c]
    ELSE c

\* str.upper() on one character.
UpperChar(c) ==
    IF \E i \in 1..Len(LowerLetters) : LowerLetters[i] = c
    THEN UpperLetters[CHOOSE i \in 1..Len(LowerLetters) : LowerLetters[i] = c]
    ELSE c

\* str.lower()
Lower(s) == [i \in 1..Len(s) |-> LowerChar(s[i])]

\* str.upper()
Upper(s) == [i \in 1..Len(s) |-> UpperChar(s[i])]

\* [0-9a-f] under re.IGNORECASE
IsHex(c) == \E i \in 1..Len(HexChars) : HexChars[i] = LowerChar(c)

\* The value of a hexadecimal digit.
HexVal(c) == (CHOOSE i \in 1..Len(HexChars) : HexChars[i] = LowerChar(c)) - 1

\* The least element of a non-empty set of integers.
Min(S) == CHOOSE x \in S : \A y \in S : x <= y

\* s.find(c) + 1: the first position of character c in s, 0 when absent.
IndexOf(s, c) ==
    IF \E i \in 1..Len(s) : s[i] = c
    THEN Min({i \in 1..Len(s) : s[i] = c})
    ELSE 0

\* t occurs in s at position i.
OccursAt(s, t, i) ==
    /\ i >= 1
    /\ i + Len(t) - 1 <= Len(s)
    /\ \A k \in 1..Len(t) : s[i + k - 1] = t[k]

\* t in s
Contains(s, t) == \E i \in 1..(Len(s) + 1) : OccursAt(s, t, i)

\* s.split(c): the pieces of s between the occurrences of character c.
RECURSIVE SplitOn(_, _)
SplitOn(s, c) ==
    LET i == IndexOf(s, c)
    IN  IF i = 0 THEN <<s>>
        ELSE <<SubSeq(s, 1, i - 1)>> \o SplitOn(SubSeq(s, i + 1, Len(s)), c)

(***************************************************************************)
(* BCID_REGEX: bc-[0-9a-f]{8}-[0-9a-f]{4}-[0-9a-f]{4}-[0-9a-f]{4}-          *)
(* [0-9a-f]{12}, re.IGNORECASE.  The pattern is a sequence of items: a     *)
(* literal character, or "HEX" for the class [0-9a-f].                     *)
(***************************************************************************)

HexRun(n) == [i \in 1..n |-> "HEX"]

BCID_REGEX ==
    <<"b", "c", "-">> \o HexRun(8) \o <<"-">> \o HexRun(4) \o <<"-">>
        \o HexRun(4) \o <<"-">> \o HexRun(4) \o <<"-">> \o HexRun(12)

\* BCID_REGEX.match(s, i - 1): the pattern matches s at position i.
BcidMatchesAt(s, i) ==
    /\ i >= 1
    /\ i + Len(BCID_REGEX) - 1 <= Len(s)
    /\ \A k \in 1..Len(BCID_REGEX) :
          IF BCID_REGEX[k] = "HEX"
          THEN IsHex(s[i + k - 1])
          ELSE LowerChar(s[i + k - 1]) = BCID_REGEX[k]

\* The start of BCID_REGEX.search(s): the leftmost match, 0 when there is none.
BcidSearchStart(s) ==
    IF \E i \in 1..Len(s) : BcidMatchesAt(s, i)
    THEN Min({i \in 1..Len(s) : BcidMatchesAt(s, i)})
    ELSE 0

\* BCID_REGEX.search(s) is not None
BcidFound(s) == BcidSearchStart(s) # 0

\* BCID_REGEX.search(s).group(0), NONE when the search fails.
BcidSearch(s) ==
    LET i == BcidSearchStart(s)
    IN  IF i = 0 THEN NONE ELSE SubSeq(s, i, i + Len(BCID_REGEX) - 1)

\* s is exactly one identifier (the Identifier grammar of the data model).
IsBcid(s) == s # NONE /\ Len(s) = Len(BCID_REGEX) /\ BcidMatchesAt(s, 1)

(***************************************************************************)
(* parse_bcid_from_url (cursor_agents_cli.py)                              *)
(***************************************************************************)

ParamNames ==
    <<  <<"s","e","l","e","c","t","e","d","B","c","I","d">>,
        <<"b","c","I","d">>  >>

\* [?&](?:selectedBcId|bcId)=([^&#]+) matches at position i with the n-th name.
ParamMatchesAt(s, i, n) ==
    LET name == ParamNames[n]
        v    == i + Len(name) + 2
    IN  /\ v <= Len(s)
        /\ s[i] \in {"?", "&"}
        /\ Lower(SubSeq(s, i + 1, i + Len(name))) = Lower(name)
        /\ s[i + Len(name) + 1] = "="
        /\ s[v] \notin {"&", "#"}

\* The longest run of characters other than & and # starting at position v.
RECURSIVE ParamRunEnd(_, _)
ParamRunEnd(s, v) ==
    IF v < Len(s) /\ s[v + 1] \notin {"&", "#"} THEN ParamRunEnd(s, v + 1) ELSE v

\* re.search(...).group(1): the value captured by the leftmost match of the
\* query-parameter pattern, NONE when it matches nowhere.
ParamSearch(s) ==
    LET hits == {i \in 1..Len(s) : \E n \in 1..Len(ParamNames) : ParamMatchesAt(s, i, n)}
    IN  IF hits = {} THEN NONE
        ELSE LET i == Min(hits)
                 n == CHOOSE m \in 1..Len(ParamNames) : ParamMatchesAt(s, i, m)
                 v == i + Len(ParamNames[n]) + 2
             IN  SubSeq(s, v, ParamRunEnd(s, v))

parse_bcid_from_url(url) ==
    LET candidate == ParamSearch(url)
    IN  IF candidate # NONE /\ BcidFound(candidate)
        THEN BcidSearch(candidate)
        ELSE BcidSearch(url)

(***************************************************************************)
(* CursorAgentFetcher.extract_agent_id (cursor_agent_fetcher.py)           *)
(***************************************************************************)

\* chr(n), for the codes the model's alphabet holds; any other byte is one
\* opaque character.
Chr(n) == IF n \in 32..126 THEN Ascii[n - 31] ELSE "NONPRINT"

\* urllib.parse.unquote after replace('+', ' '), as parse_qsl applies them.
RECURSIVE Unquote(_)
Unquote(s) ==
    IF s = <<>> THEN <<>>
    ELSE IF s[1] = "%" /\ Len(s) >= 3 /\ IsHex(s[2]) /\ IsHex(s[3])
    THEN <<Chr(16 * HexVal(s[2]) + HexVal(s[3]))>> \o Unquote(SubSeq(s, 4, Len(s)))
    ELSE IF s[1] = "+" THEN <<" ">> \o Unquote(Tail(s))
    ELSE <<s[1]>> \o Unquote(Tail(s))

\* urlparse(url).query: the fragment is cut at the first #, then the query is
\* what follows the first ? of the rest.
UrlQuery(url) ==
    LET h    == IndexOf(url, "#")
        rest == IF h = 0 THEN url ELSE SubSeq(url, 1, h - 1)
        q    == IndexOf(rest, "?")
    IN  IF q = 0 THEN <<>> ELSE SubSeq(rest, q + 1, Len(rest))

\* parse_qsl(query): the (name, value) pairs, in order.  A piece without = and
\* a pair with an empty value are dropped (strict_parsing and
\* keep_blank_values are off).
RECURSIVE QslOfPieces(_)
QslOfPieces(pieces) ==
    IF pieces = <<>> THEN <<>>
    ELSE LET p  == Head(pieces)
             e  == IndexOf(p, "=")
             nm == SubSeq(p, 1, e - 1)
             vl == SubSeq(p, e + 1, Len(p))
         IN  (IF e = 0 \/ vl = <<>> THEN <<>> ELSE << <<Unquote(nm), Unquote(vl)>> >>)
                 \o QslOfPieces(Tail(pieces))

parse_qsl(query) == QslOfPieces(SplitOn(query, "&"))

\* parse_qs(query).get(name, [None])[0]: the value of the first pair named name.
FirstParam(query, name) ==
    LET pairs == parse_qsl(query)
        hits  == {i \in 1..Len(pairs) : pairs[i][1] = name}
    IN  IF hits = {} THEN NONE ELSE pairs[Min(hits)][2]

extract_agent_id(url) == FirstParam(UrlQuery(url), ParamNames[1])

(***************************************************************************)
(* The URLs the identifier extractors are run on                           *)
(***************************************************************************)

\* demo.py's example identifier, and the all-zero identifier.
ID1 ==
    <<"b","c","-","8","9","b","d","b","1","c","e","-","f","9","e","2","-",
      "4","d","b","0","-","a","1","f","4","-",
      "e","7","0","3","b","6","9","2","6","3","3","a">>

ID2 ==
    <<"b","c","-","0","0","0","0","0","0","0","0","-","0","0","0","0","-",
      "0","0","0","0","-","0","0","0","0","-",
      "0","0","0","0","0","0","0","0","0","0","0","0">>

\* ID1 with its last hyphen percent-encoded: the grammar does not occur in it.
ID1Quoted == SubSeq(ID1, 1, 26) \o <<"%", "2", "D">> \o SubSeq(ID1, 28, Len(ID1))

\* ID2 one hexadecimal digit short: the grammar does not occur in it.
ShortId == SubSeq(ID2, 1, Len(ID2) - 1)

Hello == <<"h","e","l","l","o">>

BaseUrl ==
    <<"h","t","t","p","s",":","/","/","c","u","r","s","o","r",".","c","o","m",
      "/","a","g","e","n","t","s">>

\* The most query parameters of a URL.
MaxParams == 2

ParamValues ==
    { ID1, Upper(ID1), <<"x">> \o ID2 \o <<"y">>, ID1Quoted, ShortId, Hello }

QueryParams ==
    { name \o <<"=">> \o v :
        name \in {ParamNames[1], ParamNames[2], Upper(ParamNames[1])},
        v \in ParamValues }

RECURSIVE QueriesOf(_)
QueriesOf(n) ==
    IF n = 0 THEN {<<>>}
    ELSE {<<>>} \cup
         { IF q = <<>> THEN <<"?">> \o p ELSE q \o <<"&">> \o p :
             q \in QueriesOf(n - 1), p \in QueryParams }

UrlPaths == { <<>>, <<"/">> \o ID2 }

UrlFragments == { <<>>, <<"#">> \o Upper(ID2) }

UrlPool ==
    { BaseUrl \o p \o q \o f : p \in UrlPaths, q \in QueriesOf(MaxParams), f \in UrlFragments }


(***************************************************************************)
(* JSON values.  A value is a record [t, v]: t is "str" (v its characters), *)
(* "num" (v its digits), "null", "dict" (v the sequence of <<key, value>>  *)
(* pairs in insertion order, the keys distinct) or "list" (v the sequence  *)
(* of items).  A path is a sequence of dict keys and list indices <<i>>.   *)
(***************************************************************************)

Str(chars) == [t |-> "str", v |-> chars]
Num(digits) == [t |-> "num", v |-> digits]
Null == [t |-> "null", v |-> <<>>]
Dict(pairs) == [t |-> "dict", v |-> pairs]
List(items) == [t |-> "list", v |-> items]

\* isinstance(x, dict), isinstance(x, list), isinstance(x, str)
IsDict(x) == x.t = "dict"
IsList(x) == x.t = "list"
IsStr(x) == x.t = "str"

\* The concatenation of a sequence of sequences.
RECURSIVE ConcatAll(_)
ConcatAll(seqs) == IF seqs = <<>> THEN <<>> ELSE Head(seqs) \o ConcatAll(Tail(seqs))

\* key in node
HasKey(node, key) == \E i \in 1..Len(node.v) : node.v[i][1] = key

\* node[key]
ValueOf(node, key) == node.v[CHOOSE i \in 1..Len(node.v) : node.v[i][1] = key][2]

\* list(node.values())
DictValues(node) == [i \in 1..Len(node.v) |-> node.v[i][2]]

\* list(node.keys())
DictKeys(node) == [i \in 1..Len(node.v) |-> node.v[i][1]]

(***************************************************************************)
(* The idle values of each component's variables: a specification runs one *)
(* component and leaves the others idle.                                   *)
(***************************************************************************)

UrlIdle ==
    /\ url_in = <<>>
    /\ url_called = {}
    /\ parsed_bcid = NONE
    /\ extracted_agent_id = NONE

FindIdle ==
    /\ data = Null
    /\ bcid_filter = NONE
    /\ find_pc = "idle"
    /\ visited = <<>>
    /\ results = <<>>

\* AgentData(): every field None.
EmptyAgentData ==
    [ agent_id |-> NONE, url |-> NONE, status_code |-> Nothing,
      content_type |-> Nothing, response_size |-> Nothing,
      error_message |-> Nothing, timestamp |-> Nothing, data |-> Nothing ]

NoOutcome == [kind |-> "none", status |-> 0, reason |-> "", body |-> "none"]

NoFetch == [raised |-> "none", value |-> EmptyAgentData]

FetcherIdle ==
    /\ args = [url |-> <<>>, try_alternatives |-> FALSE, output |-> FALSE]
    /\ fpc = "idle"
    /\ agent_data = EmptyAgentData
    /\ alt_data = EmptyAgentData
    /\ alt_idx = 0
    /\ requests = <<>>
    /\ last_outcome = NoOutcome
    /\ last_fetch = NoFetch
    /\ printed = Nothing
    /\ saved = Nothing
    /\ exit_code = Nothing

\* No response yet.
NoResponse == [kind |-> "none", status |-> 0, page |-> [tag |-> FALSE, text |-> "none", value |-> Null]]

CliIdle ==
    /\ cli_args = [url |-> <<>>, bcid |-> NONE, format |-> "summary", output |-> FALSE]
    /\ cli_pc = "idle"
    /\ cli_response = NoResponse
    /\ cli_data = Null
    /\ cli_file = Nothing
    /\ cli_stdout = Nothing
    /\ cli_exit = Nothing

\* extracted_data = {}: no key set.
EmptyExtracted ==
    [ title |-> Nothing, meta_tags |-> Nothing, structured_data |-> Nothing,
      initial_state |-> Nothing, data_attributes |-> Nothing,
      extraction_error |-> Nothing ]

ExtractIdle ==
    /\ html_content = <<>>
    /\ extract_pc = "idle"
    /\ extracted_data = EmptyExtracted

SumIdle ==
    /\ obj = Dict(<<>>)
    /\ sum_pc = "idle"
    /\ summary = Dict(<<>>)
    /\ obj_after = Dict(<<>>)

DecodeIdle ==
    /\ raw_content = <<>>
    /\ content_kind = "none"
    /\ source_text = <<>>
    /\ decode_pc = "idle"
    /\ decoded = Nothing

\* agent_data_store = {}: no handler running.
WebIdle ==
    /\ agent_data_store = <<>>
    /\ clock = 0
    /\ fetches = 0
    /\ store_writes = <<>>
    /\ wpc = <<>>
    /\ wurl = <<>>
    /\ wdata = <<>>
    /\ wkey = <<>>
    /\ wresp = <<>>
    /\ viewed = Nothing

(***************************************************************************)
(* iterate_json_nodes and find_bc_objects (cursor_agents_cli.py)           *)
(***************************************************************************)

\* iterate_json_nodes without its elif branch: lists are not descended into.
RECURSIVE iterate_json_nodes_skipping_lists(_, _)
iterate_json_nodes_skipping_lists(node, path) ==
    << <<path, node>> >> \o
    (IF IsDict(node)
     THEN ConcatAll([i \in 1..Len(node.v) |->
                        iterate_json_nodes_skipping_lists(node.v[i][2],
                                                          Append(path, node.v[i][1]))])
     ELSE <<>>)

\* The sequence of (path, node) pairs the generator yields: the node itself,
\* then the traversals of its children, dict values in key order and list
\* items in index order.
RECURSIVE iterate_json_nodes(_, _)
iterate_json_nodes(node, path) ==
    << <<path, node>> >> \o
    (IF IsDict(node)
     THEN ConcatAll([i \in 1..Len(node.v) |->
                        iterate_json_nodes(node.v[i][2], Append(path, node.v[i][1]))])
     ELSE IF IsList(node)
     THEN ConcatAll([i \in 1..Len(node.v) |->
                        iterate_json_nodes(node.v[i], Append(path, <<i - 1>>))])
     ELSE <<>>)

CommonFields == <<"id", "bcId", "bc_id", "bcid">>

IsStrValue(x) == IsStr(x)

\* The candidate strings of a dict node: the string values of the common
\* fields, then every string value of the node.
Candidates(node) ==
    LET common  == SelectSeq(CommonFields,
                       LAMBDA f : HasKey(node, f) /\ IsStr(ValueOf(node, f)))
        strings == SelectSeq(DictValues(node), IsStrValue)
    IN  [i \in 1..Len(common) |-> ValueOf(node, common[i]).v]
            \o [i \in 1..Len(strings) |-> strings[i].v]

\* bool(bcid_filter): None and the empty string are false.
Truthy(s) == s # NONE /\ s # <<>>

\* The candidate test without the comparison with bcid_filter.
CandidateAccepted_ignoring_filter(candidate, filter) == BcidFound(candidate)

\* A candidate ends the loop over the candidates with an append: it holds an
\* identifier, and that identifier is the filter's when a filter is given.
CandidateAccepted(candidate, filter) ==
    LET bcid == BcidSearch(candidate)
    IN  /\ bcid # NONE
        /\ ~(Truthy(filter) /\ Lower(bcid) # Lower(filter))

\* The node is appended to the results (once: the loop breaks).
NodeAccepted(node, filter) ==
    /\ IsDict(node)
    /\ LET candidates == Candidates(node)
       IN  \E i \in 1..Len(candidates) : CandidateAccepted(candidates[i], filter)

\* The (path, node) pairs of the traversal whose node is appended.
FoundEntries(tree, filter) ==
    LET Accepted(e) == NodeAccepted(e[2], filter)
    IN  SelectSeq(iterate_json_nodes(tree, <<>>), Accepted)

\* find_bc_objects that does what its comment "Avoid duplicates" says: a node
\* equal to one already in the results is not appended.
find_bc_objects_deduplicating(tree, filter) ==
    LET found == FoundEntries(tree, filter)
        nodes == [i \in 1..Len(found) |-> found[i][2]]
        first == { i \in 1..Len(nodes) : \A j \in 1..(i - 1) : nodes[j] # nodes[i] }
        Nth(k) == CHOOSE i \in first : Cardinality({ j \in first : j < i }) = k - 1
    IN  [k \in 1..Cardinality(first) |-> nodes[Nth(k)]]

find_bc_objects(tree, filter) ==
    LET found == FoundEntries(tree, filter)
    IN  [i \in 1..Len(found) |-> found[i][2]]

(***************************************************************************)
(* The JSON trees the finder is run on: every tree of at most MaxNodes     *)
(* nodes over the scalars and keys below.                                  *)
(***************************************************************************)

\* The most nodes (objects, arrays and scalars together) of a tree.
MaxNodes == 4

TreeScalars ==
    { Str(ID1), Str(<<"x">> \o Upper(ID2) \o <<"y">>), Str(ShortId), Num(<<"7">>) }

TreeKeys == {"id", "name"}

\* The sequences of k distinct keys.
KeySeqs(k) == { ks \in [1..k -> TreeKeys] : \A i, j \in 1..k : i # j => ks[i] # ks[j] }

RECURSIVE TreesOfSize(_), ChildSeqs(_)
\* The sequences of trees with m nodes in all.
ChildSeqs(m) ==
    IF m = 0 THEN {<<>>}
    ELSE UNION { { <<t>> \o rest : t \in TreesOfSize(k), rest \in ChildSeqs(m - k) } :
                 k \in 1..m }

\* The trees of exactly n nodes.
TreesOfSize(n) ==
    (IF n = 1 THEN TreeScalars ELSE {})
        \cup { List(cs) : cs \in ChildSeqs(n - 1) }
        \cup UNION { { Dict([i \in 1..Len(cs) |-> <<ks[i], cs[i]>>]) : ks \in KeySeqs(Len(cs)) } :
                     cs \in ChildSeqs(n - 1) }

\* Two equal objects at two positions of a tree, below an object that
\* matches as well.
EqualObjectsTree ==
    Dict(<< <<"id", Str(ID1)>>,
            <<"name", List(<< Dict(<< <<"id", Str(ID1)>> >>),
                              Dict(<< <<"id", Str(ID1)>> >>) >>)>> >>)

\* Two different matching objects under the keys of an object, the key
\* "name" inserted before the key "id".
SiblingObjectsTree ==
    Dict(<< <<"name", Dict(<< <<"id", Str(<<"x">> \o Upper(ID2) \o <<"y">>)>> >>)>>,
            <<"id", Dict(<< <<"name", Str(ID1)>> >>)>> >>)

\* Two different matching objects as the items of an array.
SiblingItemsTree ==
    List(<< Dict(<< <<"id", Str(<<"x">> \o Upper(ID2) \o <<"y">>)>> >>),
            Dict(<< <<"id", Str(ID1)>> >>) >>)

TreePool ==
    UNION { TreesOfSize(n) : n \in 1..MaxNodes }
        \cup {EqualObjectsTree, SiblingObjectsTree, SiblingItemsTree}

FilterPool == { NONE, <<>>, Upper(ID1) }

(***************************************************************************)
(* The object finder as a state machine: one call of find_bc_objects       *)
(***************************************************************************)

InitFind ==
    /\ UrlIdle
    /\ FetcherIdle
    /\ CliIdle
    /\ ExtractIdle
    /\ SumIdle
    /\ DecodeIdle
    /\ WebIdle
    /\ data \in TreePool
    /\ bcid_filter \in FilterPool
    /\ find_pc = "start"
    /\ visited = <<>>
    /\ results = <<>>

\* find_bc_objects(data, bcid_filter): the traversal it consumes and the list
\* it returns.
CallFindBcObjects ==
    /\ find_pc = "start"
    /\ visited' = iterate_json_nodes(data, <<>>)
    /\ results' = find_bc_objects(data, bcid_filter)
    /\ find_pc' = "done"
    /\ UNCHANGED <<data, bcid_filter>>
    /\ FindFrame

(***************************************************************************)
(* Identifier extraction as a state machine: both extractors are applied   *)
(* to the same URL, in either order.                                       *)
(***************************************************************************)

InitUrl ==
    /\ url_in \in UrlPool
    /\ url_called = {}
    /\ parsed_bcid = NONE
    /\ extracted_agent_id = NONE
    /\ FindIdle
    /\ FetcherIdle
    /\ CliIdle
    /\ ExtractIdle
    /\ SumIdle
    /\ DecodeIdle
    /\ WebIdle

CallParseBcidFromUrl ==
    /\ url_in # <<>>
    /\ "parse_bcid_from_url" \notin url_called
    /\ parsed_bcid' = parse_bcid_from_url(url_in)
    /\ url_called' = url_called \cup {"parse_bcid_from_url"}
    /\ UNCHANGED <<url_in, extracted_agent_id>>
    /\ UrlFrame

CallExtractAgentId ==
    /\ url_in # <<>>
    /\ "extract_agent_id" \notin url_called
    /\ extracted_agent_id' = extract_agent_id(url_in)
    /\ url_called' = url_called \cup {"extract_agent_id"}
    /\ UNCHANGED <<url_in, parsed_bcid>>
    /\ UrlFrame

NextUrl == CallParseBcidFromUrl \/ CallExtractAgentId

SpecUrl == InitUrl /\ [][NextUrl]_vars

NextFind == CallFindBcObjects

SpecFind == InitFind /\ [][NextFind]_vars

(***************************************************************************)
(* CursorAgentFetcher.fetch_agent_data (cursor_agent_fetcher.py).  The     *)
(* HTTP exchange is the environment's: an outcome is either a response     *)
(* (status, reason and a body) or the exception session.get raises.  A     *)
(* message is the sequence of its words.                                   *)
(***************************************************************************)

Response(status, reason, body) ==
    [kind |-> "response", status |-> status, reason |-> reason, body |-> body]

Raised(exception) ==
    [kind |-> exception, status |-> 0, reason |-> "", body |-> "none"]

\* The bodies of a 200 response: JSON text of an object, the JSON text null,
\* an HTML page, other text, and a body whose processing raises an exception
\* that is no json.JSONDecodeError.
Bodies == {"json", "json_null", "html", "text", "raises"}

Outcomes ==
    { Response(200, "OK", b) : b \in Bodies }
        \cup { Response(404, "Not Found", "html"),
               Response(403, "Forbidden", "html"),
               Response(500, "Internal Server Error", "text") }
        \cup { Raised("Timeout"), Raised("ConnectionError"), Raised("Exception") }

\* response.headers.get('content-type', 'unknown')
ContentTypeOf(body) ==
    CASE body \in {"json", "json_null"} -> "application/json"
      [] body = "html" -> "text/html"
      [] OTHER -> "unknown"

\* len(response.content)
SizeOf(body) == IF body = "json_null" THEN 4 ELSE 64

\* --timeout's default, as it is printed in a message.
DefaultTimeout == "30"

NotFoundMessage ==
    <<"Agent", "not", "found", "(404).", "The", "URL", "may", "be", "invalid",
      "or", "the", "agent", "may", "not", "be", "publicly", "accessible.">>

ForbiddenMessage ==
    <<"Access", "forbidden", "(403).", "Authentication", "may", "be", "required.">>

HttpMessage(status, reason) == <<"HTTP", ToString(status), reason>>

TimeoutMessage(timeout) ==
    <<"Request", "timed", "out", "after", timeout, "seconds">>

ConnectionMessage ==
    <<"Connection", "error.", "Check", "your", "internet", "connection.">>

UnexpectedMessage(exception) == <<"Unexpected", "error:", exception>>

\* agent_data.data of a 200 response, given that nothing raised: the parsed
\* JSON, or the dict built for HTML or text.
DataOf(body) ==
    CASE body = "json" -> Some(<< <<"json", body>> >>)
      [] body = "json_null" -> Nothing
      [] body = "html" ->
            Some(<< <<"content_type", "html">>, <<"raw_html", body>>,
                    <<"extracted_info", "extract_agent_info">> >>)
      [] OTHER -> Some(<< <<"content_type", "text">>, <<"content", body>> >>)

ApiAgentsPrefix ==
    <<"h","t","t","p","s",":","/","/","c","u","r","s","o","r",".","c","o","m",
      "/","a","p","i","/","a","g","e","n","t","s","/">>

ApiHostPrefix ==
    <<"h","t","t","p","s",":","/","/","a","p","i",".","c","u","r","s","o","r",
      ".","c","o","m","/","a","g","e","n","t","s","/">>

AgentsPrefix ==
    <<"h","t","t","p","s",":","/","/","c","u","r","s","o","r",".","c","o","m",
      "/","a","g","e","n","t","s","/">>

JsonSuffix == <<".","j","s","o","n">>

AgentsDataPrefix ==
    <<"h","t","t","p","s",":","/","/","c","u","r","s","o","r",".","c","o","m",
      "/","a","g","e","n","t","s","/","d","a","t","a","/">>

alternative_urls(agent_id) ==
    << ApiAgentsPrefix \o agent_id,
       ApiHostPrefix \o agent_id,
       AgentsPrefix \o agent_id \o JsonSuffix,
       AgentsDataPrefix \o agent_id >>

\* AgentData(error_message="No accessible endpoints found for this agent")
NoEndpointsMessage ==
    <<"No", "accessible", "endpoints", "found", "for", "this", "agent">>

NoEndpointsData == [EmptyAgentData EXCEPT !.error_message = Some(NoEndpointsMessage)]

SelectedBcIdQuery == <<"?">> \o ParamNames[1] \o <<"=">>

ArgsPool ==
    [ url : { BaseUrl \o SelectedBcIdQuery \o ID1,
              BaseUrl \o SelectedBcIdQuery \o Hello,
              BaseUrl },
      try_alternatives : BOOLEAN,
      output : BOOLEAN ]

\* Every URL main can be started with, and every alternative URL built from
\* the identifier of one of them.
RequestUrls ==
    LET main_urls == { a.url : a \in ArgsPool }
    IN  main_urls \cup
            { alternative_urls(extract_agent_id(u))[i] : u \in main_urls, i \in 1..4 }

\* extract_agent_id, tabulated over the URLs that are requested.
ExtractedAgentId == [ u \in RequestUrls |-> extract_agent_id(u) ]

\* agent_data = AgentData(url=url, timestamp=..., agent_id=extract_agent_id(url))
Created(url) ==
    [ EmptyAgentData EXCEPT !.url = url,
                            !.timestamp = Some("now"),
                            !.agent_id = ExtractedAgentId[url] ]

\* The assignments that follow session.get's return.
Answered(created, outcome) ==
    [ created EXCEPT !.status_code = Some(outcome.status),
                     !.content_type = Some(ContentTypeOf(outcome.body)),
                     !.response_size = Some(SizeOf(outcome.body)) ]

\* The try block with the data assigned before the statement that raises.
TryBlock_raising_after_data(created, outcome) ==
    IF outcome.kind # "response" THEN [exc |-> outcome.kind, value |-> created]
    ELSE IF outcome.status = 200
    THEN [exc |-> IF outcome.body = "raises" THEN "Exception" ELSE "none",
          value |-> [Answered(created, outcome) EXCEPT
                        !.data = DataOf(outcome.body)]]
    ELSE IF outcome.status = 404
    THEN [exc |-> "none",
          value |-> [Answered(created, outcome) EXCEPT
                        !.error_message = Some(NotFoundMessage)]]
    ELSE IF outcome.status = 403
    THEN [exc |-> "none",
          value |-> [Answered(created, outcome) EXCEPT
                        !.error_message = Some(ForbiddenMessage)]]
    ELSE [exc |-> "none",
          value |-> [Answered(created, outcome) EXCEPT
                        !.error_message =
                            Some(HttpMessage(outcome.status, outcome.reason))]]

\* The try block: the exception that leaves it ("none" when it runs to its
\* end) and agent_data as assigned by then.
TryBlock(created, outcome) ==
    IF outcome.kind # "response" THEN [exc |-> outcome.kind, value |-> created]
    ELSE IF outcome.status = 200
    THEN IF outcome.body = "raises"
         THEN [exc |-> "Exception", value |-> Answered(created, outcome)]
         ELSE [exc |-> "none",
               value |-> [Answered(created, outcome) EXCEPT
                             !.data = DataOf(outcome.body)]]
    ELSE IF outcome.status = 404
    THEN [exc |-> "none",
          value |-> [Answered(created, outcome) EXCEPT
                        !.error_message = Some(NotFoundMessage)]]
    ELSE IF outcome.status = 403
    THEN [exc |-> "none",
          value |-> [Answered(created, outcome) EXCEPT
                        !.error_message = Some(ForbiddenMessage)]]
    ELSE [exc |-> "none",
          value |-> [Answered(created, outcome) EXCEPT
                        !.error_message =
                            Some(HttpMessage(outcome.status, outcome.reason))]]

\* The except clauses without the last one (except Exception): any other
\* exception leaves the function.
ExceptClauses_without_catch_all(try, timeout) ==
    CASE try.exc = "none" -> [raised |-> "none", value |-> try.value]
      [] try.exc = "Timeout" ->
            [raised |-> "none",
             value |-> [try.value EXCEPT
                           !.error_message = Some(TimeoutMessage(timeout))]]
      [] try.exc = "ConnectionError" ->
            [raised |-> "none",
             value |-> [try.value EXCEPT !.error_message = Some(ConnectionMessage)]]
      [] OTHER -> [raised |-> try.exc, value |-> try.value]

\* The except clauses: what reaches the caller, the exception raised to it
\* ("none" when the function returns) and the AgentData returned.
ExceptClauses(try, timeout) ==
    CASE try.exc = "none" -> [raised |-> "none", value |-> try.value]
      [] try.exc = "Timeout" ->
            [raised |-> "none",
             value |-> [try.value EXCEPT
                           !.error_message = Some(TimeoutMessage(timeout))]]
      [] try.exc = "ConnectionError" ->
            [raised |-> "none",
             value |-> [try.value EXCEPT !.error_message = Some(ConnectionMessage)]]
      [] OTHER ->
            [raised |-> "none",
             value |-> [try.value EXCEPT
                           !.error_message = Some(UnexpectedMessage(try.exc))]]

fetch_agent_data(url, outcome, timeout) ==
    ExceptClauses(TryBlock(Created(url), outcome), timeout)

(***************************************************************************)
(* try_alternative_endpoints and main (cursor_agent_fetcher.py)            *)
(***************************************************************************)

InitFetcher ==
    /\ UrlIdle
    /\ FindIdle
    /\ CliIdle
    /\ ExtractIdle
    /\ SumIdle
    /\ DecodeIdle
    /\ WebIdle
    /\ args \in ArgsPool
    /\ fpc = "main"
    /\ agent_data = EmptyAgentData
    /\ alt_data = EmptyAgentData
    /\ alt_idx = 0
    /\ requests = <<>>
    /\ last_outcome = NoOutcome
    /\ last_fetch = NoFetch
    /\ printed = Nothing
    /\ saved = Nothing
    /\ exit_code = Nothing

\* One call of fetch_agent_data, with the environment's outcome: the request
\* is logged and the call's result kept.
Fetched(url, outcome, r) ==
    /\ last_outcome' = outcome
    /\ last_fetch' = r
    /\ requests' = Append(requests, [url |-> url, status |-> r.value.status_code])

\* main: agent_data = fetcher.fetch_agent_data(args.url), and the test that
\* guards the alternatives.
MainFetch ==
    /\ fpc = "main"
    /\ \E outcome \in Outcomes :
          \E r \in {fetch_agent_data(args.url, outcome, DefaultTimeout)} :
              /\ Fetched(args.url, outcome, r)
              /\ agent_data' = r.value
              /\ fpc' = IF r.raised # "none" THEN "crashed"
                        ELSE IF /\ r.value.status_code # Some(200)
                                /\ args.try_alternatives
                                /\ Truthy(r.value.agent_id)
                        THEN "alt_loop"
                        ELSE "summary"
              /\ alt_idx' = 1
    /\ UNCHANGED <<args, alt_data, printed, saved, exit_code>>
    /\ FetcherFrame

\* The loop body reaches the return: the first 200 response ends the loop.
AltFetch_not_stopping ==
    /\ fpc = "alt_loop"
    /\ alt_idx <= Len(alternative_urls(agent_data.agent_id))
    /\ \E outcome \in Outcomes :
          \E alt_url \in {alternative_urls(agent_data.agent_id)[alt_idx]} :
          \E r \in {fetch_agent_data(alt_url, outcome, DefaultTimeout)} :
              /\ Fetched(alt_url, outcome, r)
              /\ alt_data' = r.value
              /\ fpc' = IF r.raised # "none" THEN "crashed" ELSE "alt_sleep"
    /\ UNCHANGED <<args, agent_data, alt_idx, printed, saved, exit_code>>
    /\ FetcherFrame

\* try_alternative_endpoints, one turn of the loop: fetch the next
\* alternative URL and return its result if the status is 200.
AltFetch ==
    /\ fpc = "alt_loop"
    /\ alt_idx <= Len(alternative_urls(agent_data.agent_id))
    /\ \E outcome \in Outcomes :
          \E alt_url \in {alternative_urls(agent_data.agent_id)[alt_idx]} :
          \E r \in {fetch_agent_data(alt_url, outcome, DefaultTimeout)} :
              /\ Fetched(alt_url, outcome, r)
              /\ alt_data' = r.value
              /\ fpc' = IF r.raised # "none" THEN "crashed"
                        ELSE IF r.value.status_code = Some(200) THEN "alt_returned"
                        ELSE "alt_sleep"
    /\ UNCHANGED <<args, agent_data, alt_idx, printed, saved, exit_code>>
    /\ FetcherFrame

\* time.sleep(1), then the next turn.
AltSleep ==
    /\ fpc = "alt_sleep"
    /\ alt_idx' = alt_idx + 1
    /\ fpc' = "alt_loop"
    /\ UNCHANGED <<args, agent_data, alt_data, requests, last_outcome, last_fetch,
                   printed, saved, exit_code>>
    /\ FetcherFrame

\* The list is exhausted: the placeholder result is returned.
AltExhausted ==
    /\ fpc = "alt_loop"
    /\ alt_idx > Len(alternative_urls(agent_data.agent_id))
    /\ alt_data' = NoEndpointsData
    /\ fpc' = "alt_returned"
    /\ UNCHANGED <<args, agent_data, alt_idx, requests, last_outcome, last_fetch,
                   printed, saved, exit_code>>
    /\ FetcherFrame

\* main taking whatever try_alternative_endpoints returns.
MainTakeAlternative_unconditionally ==
    /\ fpc = "alt_returned"
    /\ agent_data' = alt_data
    /\ fpc' = "summary"
    /\ UNCHANGED <<args, alt_data, alt_idx, requests, last_outcome, last_fetch,
                   printed, saved, exit_code>>
    /\ FetcherFrame

\* main: if alt_data.status_code == 200: agent_data = alt_data
MainTakeAlternative ==
    /\ fpc = "alt_returned"
    /\ agent_data' = IF alt_data.status_code = Some(200) THEN alt_data ELSE agent_data
    /\ fpc' = "summary"
    /\ UNCHANGED <<args, alt_data, alt_idx, requests, last_outcome, last_fetch,
                   printed, saved, exit_code>>
    /\ FetcherFrame

\* main: fetcher.print_summary(agent_data)
PrintSummary ==
    /\ fpc = "summary"
    /\ printed' = Some(agent_data)
    /\ fpc' = "save"
    /\ UNCHANGED <<args, agent_data, alt_data, alt_idx, requests, last_outcome,
                   last_fetch, saved, exit_code>>
    /\ FetcherFrame

\* main: if args.output: fetcher.save_data(agent_data, args.output).  The
\* write may fail; save_data catches the exception.
SaveData ==
    /\ fpc = "save"
    /\ \E written \in BOOLEAN :
          saved' = IF args.output /\ written THEN Some(agent_data) ELSE saved
    /\ fpc' = "exit"
    /\ UNCHANGED <<args, agent_data, alt_data, alt_idx, requests, last_outcome,
                   last_fetch, printed, exit_code>>
    /\ FetcherFrame

\* The exit code with the test for any status in place of the test for 200.
ExitCodeOf_any_status(result) == IF result.status_code # Nothing THEN 0 ELSE 1

\* return 0 if agent_data.status_code == 200 else 1
ExitCodeOf(result) == IF result.status_code = Some(200) THEN 0 ELSE 1

Exit ==
    /\ fpc = "exit"
    /\ exit_code' = Some(ExitCodeOf(agent_data))
    /\ fpc' = "done"
    /\ UNCHANGED <<args, agent_data, alt_data, alt_idx, requests, last_outcome,
                   last_fetch, printed, saved>>
    /\ FetcherFrame

NextFetcher ==
    \/ MainFetch
    \/ AltFetch
    \/ AltSleep
    \/ AltExhausted
    \/ MainTakeAlternative
    \/ PrintSummary
    \/ SaveData
    \/ Exit

\* The script is one sequential process: a step that can be taken is taken
\* (every request ends, by a response or by the session's timeout).
SpecFetcher == InitFetcher /\ [][NextFetcher]_vars /\ WF_vars(NextFetcher)

(***************************************************************************)
(* summarize_object (cursor_agents_cli.py).  A dict is the sequence of its *)
(* (key, value) pairs in insertion order.                                  *)
(***************************************************************************)

keys_of_interest ==
    <<"id", "bcId", "name", "title", "displayName", "description",
      "createdAt", "updatedAt", "ownerId", "visibility", "slug", "type">>

\* for key in keys_of_interest: if key in obj: summary[key] = obj[key]
AllowlistCopy(o) ==
    LET Present(key) == HasKey(o, key)
        present == SelectSeq(keys_of_interest, Present)
    IN  [i \in 1..Len(present) |-> <<present[i], ValueOf(o, present[i])>>]

\* list(obj.keys()) without the [:10].
FirstKeys_uncapped(o) == DictKeys(o)

\* list(obj.keys())[:10]
FirstKeys(o) == SubSeq(DictKeys(o), 1, Min({10, Len(o.v)}))

\* The second loop: the keys among the first ten that are not yet in summary.
HeuristicCopy(o, copied) ==
    LET Missing(key) == \A i \in 1..Len(copied) : copied[i][1] # key
        missing == SelectSeq(FirstKeys(o), Missing)
    IN  [i \in 1..Len(missing) |-> <<missing[i], ValueOf(o, missing[i])>>]

\* summarize_object with the second loop run for every object and over all
\* of the object's keys.
summarize_object_copying_all(o) ==
    LET copied == AllowlistCopy(o)
        Missing(key) == \A i \in 1..Len(copied) : copied[i][1] # key
        missing == SelectSeq(DictKeys(o), Missing)
    IN  Dict(copied \o [i \in 1..Len(missing) |-> <<missing[i], ValueOf(o, missing[i])>>])

summarize_object(o) ==
    LET copied == AllowlistCopy(o)
    IN  IF Len(copied) <= 2
        THEN Dict(copied \o HeuristicCopy(o, copied))
        ELSE Dict(copied)

(***************************************************************************)
(* The objects summarize_object is run on: a run of allowlisted keys, in   *)
(* the reverse of the allowlist's order, and up to MaxExtras other keys,   *)
(* one group before the other.                                             *)
(***************************************************************************)

MaxExtras == 15

ExtraKey(i) == "extra" \o ToString(i)

\* The value stored under a key: each key has its own.
ValueUnder(key) == Str(<<key>>)

Reverse(seq) == [i \in 1..Len(seq) |-> seq[Len(seq) + 1 - i]]

AllowedRuns ==
    { Reverse(SubSeq(keys_of_interest, i, j)) :
        i \in 1..Len(keys_of_interest), j \in 0..Len(keys_of_interest) }

ExtraRuns == { [i \in 1..n |-> ExtraKey(i)] : n \in 0..MaxExtras }

ObjectOfKeys(keys) == Dict([i \in 1..Len(keys) |-> <<keys[i], ValueUnder(keys[i])>>])

\* The object {id, name, extra1, ..., extra15}.
ExampleObject == ObjectOfKeys(<<"id", "name">> \o [i \in 1..15 |-> ExtraKey(i)])

ObjectPool ==
    { ObjectOfKeys(a \o e) : a \in AllowedRuns, e \in ExtraRuns }
        \cup { ObjectOfKeys(e \o a) : a \in AllowedRuns, e \in ExtraRuns }
        \cup { ExampleObject }

InitSum ==
    /\ UrlIdle
    /\ FindIdle
    /\ FetcherIdle
    /\ CliIdle
    /\ ExtractIdle
    /\ DecodeIdle
    /\ WebIdle
    /\ obj \in ObjectPool
    /\ sum_pc = "start"
    /\ summary = Dict(<<>>)
    /\ obj_after = obj

\* One call of summarize_object: it builds a new dict and assigns nothing
\* to obj.
CallSummarizeObject ==
    /\ sum_pc = "start"
    /\ summary' = summarize_object(obj)
    /\ obj_after' = obj
    /\ sum_pc' = "done"
    /\ UNCHANGED obj
    /\ SumFrame

NextSum == CallSummarizeObject

SpecSum == InitSum /\ [][NextSum]_vars

(***************************************************************************)
(* The second CLI: fetch_html, extract_next_data and main                  *)
(* (cursor_agents_cli.py).  A page is what extract_next_data looks at:     *)
(* whether the __NEXT_DATA__ script tag is there, and its text, which is   *)
(* empty, no JSON, or the JSON text of a value.  None is the JSON null.    *)
(***************************************************************************)

Page(tag, text, value) == [tag |-> tag, text |-> text, value |-> value]

NoPage == Page(FALSE, "none", Null)

PageResponse(status, page) == [kind |-> "response", status |-> status, page |-> page]

FailedRequest(exception) == [kind |-> exception, status |-> 0, page |-> NoPage]

\* resp.raise_for_status(): HTTPError for a status from 400 to 599.
RaisesForStatus(status) == 400 <= status /\ status < 600

\* fetch_html without resp.raise_for_status().
fetch_html_without_raise_for_status(response) ==
    IF response.kind # "response"
    THEN [raised |-> response.kind, html |-> NoPage]
    ELSE [raised |-> "none", html |-> response.page]

\* fetch_html: the exception it raises ("none" when it returns) and the
\* text returned.  requests.get raises for a transport failure.
fetch_html(response) ==
    IF response.kind # "response"
    THEN [raised |-> response.kind, html |-> NoPage]
    ELSE IF RaisesForStatus(response.status)
    THEN [raised |-> "HTTPError", html |-> NoPage]
    ELSE [raised |-> "none", html |-> response.page]

\* extract_next_data: None without the tag or with an empty text, None for
\* a json.JSONDecodeError, else the value json.loads returns.
extract_next_data(html) ==
    IF ~html.tag \/ html.text = "empty" THEN Null
    ELSE IF html.text = "invalid" THEN Null
    ELSE html.value

\* bcid = args.bcid or parse_bcid_from_url(args.url)
BcidOf(a) == IF Truthy(a.bcid) THEN a.bcid ELSE parse_bcid_from_url(a.url)

\* What main prints: the warning for no match, or the matches in the chosen
\* format; for summary, the summaries of the matches.
Printed(matches, format) ==
    IF matches = <<>> THEN [kind |-> "warn", value |-> <<>>]
    ELSE IF format = "json" THEN [kind |-> "json", value |-> matches]
    ELSE IF format = "pretty" THEN [kind |-> "pretty", value |-> matches]
    ELSE [kind |-> "summary",
          value |-> [i \in 1..Len(matches) |-> summarize_object(matches[i])]]

CliArgsPool ==
    [ url : { BaseUrl \o SelectedBcIdQuery \o ID1, BaseUrl },
      bcid : { NONE, ID2 },
      format : { "summary", "json", "pretty" },
      output : BOOLEAN ]

\* The values of the __NEXT_DATA__ text: null, a number, empty containers,
\* an object with an identifier, and one with two nested objects.
PayloadPool ==
    { Null,
      Num(<<"7">>),
      Dict(<<>>),
      Dict(<< <<"id", Str(ID1)>>, <<"name", Str(ShortId)>> >>),
      Dict(<< <<"id", Str(ID2)>>,
              <<"name", List(<< Dict(<< <<"id", Str(ID1)>> >>) >>)>> >>) }

PagePool ==
    { NoPage, Page(TRUE, "empty", Null), Page(TRUE, "invalid", Null) }
        \cup { Page(TRUE, "json", value) : value \in PayloadPool }

StatusPool == {200, 304, 404, 500}

ResponsePool ==
    { PageResponse(status, page) : status \in StatusPool, page \in PagePool }
        \cup { FailedRequest("Timeout"), FailedRequest("ConnectionError") }

InitCli ==
    /\ UrlIdle
    /\ FindIdle
    /\ FetcherIdle
    /\ ExtractIdle
    /\ SumIdle
    /\ DecodeIdle
    /\ WebIdle
    /\ cli_args \in CliArgsPool
    /\ cli_pc = "fetch"
    /\ cli_response = NoResponse
    /\ cli_data = Null
    /\ cli_file = Nothing
    /\ cli_stdout = Nothing
    /\ cli_exit = Nothing

\* main: html = fetch_html(...), and return 2 from either except clause
\* (requests.HTTPError, requests.RequestException).
CliFetch ==
    /\ cli_pc = "fetch"
    /\ \E response \in ResponsePool :
          /\ cli_response' = response
          /\ IF fetch_html(response).raised # "none"
             THEN cli_exit' = Some(2) /\ cli_pc' = "done"
             ELSE cli_exit' = cli_exit /\ cli_pc' = "extract"
    /\ UNCHANGED <<cli_args, cli_data, cli_file, cli_stdout>>
    /\ CliFrame

\* main: data = extract_next_data(html); if data is None: return 3
CliExtract ==
    /\ cli_pc = "extract"
    /\ cli_data' = extract_next_data(fetch_html(cli_response).html)
    /\ IF cli_data' = Null
       THEN cli_exit' = Some(3) /\ cli_pc' = "done"
       ELSE cli_exit' = cli_exit /\ cli_pc' = "output"
    /\ UNCHANGED <<cli_args, cli_response, cli_file, cli_stdout>>
    /\ CliFrame

\* main: if args.output: json.dump(data, f).  An OSError is caught and only
\* warned about.
CliWriteOutput ==
    /\ cli_pc = "output"
    /\ \E written \in BOOLEAN :
          cli_file' = IF cli_args.output /\ written THEN Some(cli_data) ELSE cli_file
    /\ cli_pc' = "search"
    /\ UNCHANGED <<cli_args, cli_response, cli_data, cli_stdout, cli_exit>>
    /\ CliFrame

\* main: matches = find_bc_objects(data, bcid_filter=bcid), the printing,
\* and return 0.
CliSearch ==
    /\ cli_pc = "search"
    /\ \E matches \in {find_bc_objects(cli_data, BcidOf(cli_args))} :
          cli_stdout' = Some(Printed(matches, cli_args.format))
    /\ cli_exit' = Some(0)
    /\ cli_pc' = "done"
    /\ UNCHANGED <<cli_args, cli_response, cli_data, cli_file>>
    /\ CliFrame

NextCli ==
    \/ CliFetch
    \/ CliExtract
    \/ CliWriteOutput
    \/ CliSearch

SpecCli == InitCli /\ [][NextCli]_vars

(***************************************************************************)
(* CursorAgentFetcher.extract_agent_info (cursor_agent_fetcher.py).  The   *)
(* parsed document is the sequence of its elements in document order.  An  *)
(* element has a tag, its text, the attributes the extractor reads, and    *)
(* for a script its string: None (Nothing) for a script without a body,    *)
(* else what the extractor gets from the body: the value json.loads gives  *)
(* (Nothing for a json.JSONDecodeError), whether the body contains         *)
(* 'window.__' or 'window.INITIAL', and what json.loads gives for each     *)
(* region the regular expression finds.  An absent attribute is "".        *)
(***************************************************************************)

Element(tag, text, name, property, content, type, string, attrs) ==
    [ tag |-> tag, text |-> text, name |-> name, property |-> property,
      content |-> content, type |-> type, string |-> string, attrs |-> attrs ]

Title(text) == Element("title", text, "", "", "", "", Nothing, <<>>)

Meta(name, property, content) ==
    Element("meta", <<>>, name, property, content, "", Nothing, <<>>)

Script(type, string) == Element("script", <<>>, "", "", "", type, string, <<>>)

Div(attrs) == Element("div", <<>>, "", "", "", "", Nothing, attrs)

Body(json, window, matches) == [json |-> json, window |-> window, matches |-> matches]

\* str.strip(), for blanks.
RECURSIVE Strip(_)
Strip(text) ==
    IF text = <<>> THEN <<>>
    ELSE IF Head(text) = " " THEN Strip(Tail(text))
    ELSE IF text[Len(text)] = " " THEN Strip(SubSeq(text, 1, Len(text) - 1))
    ELSE text

\* d[key] = value that leaves a present key's value as it is.
DictSet_keeping_first(pairs, key, value) ==
    IF \E i \in 1..Len(pairs) : pairs[i][1] = key
    THEN pairs
    ELSE Append(pairs, <<key, value>>)

\* d[key] = value on a dict: a present key keeps its place.
DictSet(pairs, key, value) ==
    IF \E i \in 1..Len(pairs) : pairs[i][1] = key
    THEN [i \in 1..Len(pairs) |-> IF pairs[i][1] = key THEN <<key, value>> ELSE pairs[i]]
    ELSE Append(pairs, <<key, value>>)

\* The dict after the assignments d[k] = v of a sequence of (k, v), in order.
RECURSIVE DictOf(_)
DictOf(assignments) ==
    IF assignments = <<>> THEN <<>>
    ELSE LET n == Len(assignments)
         IN  DictSet(DictOf(SubSeq(assignments, 1, n - 1)),
                     assignments[n][1], assignments[n][2])

\* soup.find_all(tag)
FindAll(doc, tag) ==
    LET IsTag(e) == e.tag = tag
    IN  SelectSeq(doc, IsTag)

\* The title step: the stripped text of the first title element.
TitleStep(doc) ==
    LET titles == FindAll(doc, "title")
    IN  IF titles = <<>> THEN Nothing ELSE Some(Strip(titles[1].text))

\* meta.get('name') or meta.get('property')
MetaName(e) == IF e.name # "" THEN e.name ELSE e.property

\* The meta step: meta_tags[name] = content for every meta element with a
\* name and a content; the key is set only for a non-empty dict.
MetaStep(doc) ==
    LET Named(e) == MetaName(e) # "" /\ e.content # ""
        named == SelectSeq(FindAll(doc, "meta"), Named)
        meta_tags == DictOf([i \in 1..Len(named) |-> <<MetaName(named[i]), named[i].content>>])
    IN  IF meta_tags = <<>> THEN Nothing ELSE Some(meta_tags)

LdJsonType == "application/ld+json"

\* soup.find_all('script', type='application/ld+json')
JsonLdScripts(doc) ==
    LET IsLd(e) == e.type = LdJsonType
    IN  SelectSeq(FindAll(doc, "script"), IsLd)

\* json.loads(script.string) raises a TypeError for script.string None; it
\* is no json.JSONDecodeError, so the inner except lets it through.
JsonLdRaises(doc) ==
    \E i \in 1..Len(JsonLdScripts(doc)) : JsonLdScripts(doc)[i].string = Nothing

\* The JSON-LD step without an exception: the values of the scripts whose
\* string parses, in order; the key is set only for a non-empty list.
JsonLdStep(doc) ==
    LET Parses(e) == e.string # Nothing /\ e.string[1].json # Nothing
        parsed == SelectSeq(JsonLdScripts(doc), Parses)
        json_ld_data == [i \in 1..Len(parsed) |-> parsed[i].string[1].json[1]]
    IN  IF json_ld_data = <<>> THEN Nothing ELSE Some(json_ld_data)

\* The embedded-state step: over every script with a string that has one of
\* the window patterns, the values of the regions that parse, in order.
StateStep(doc) ==
    LET HasState(e) == e.string # Nothing /\ e.string[1].window
        scripts == SelectSeq(FindAll(doc, "script"), HasState)
        Parses(match) == match # Nothing
        regions == ConcatAll([i \in 1..Len(scripts) |-> scripts[i].string[1].matches])
        parsed == SelectSeq(regions, Parses)
        initial_state == [i \in 1..Len(parsed) |-> parsed[i][1]]
    IN  IF initial_state = <<>> THEN Nothing ELSE Some(initial_state)

\* attr.startswith('data-')
IsDataAttr(attr) == attr.data

\* The data-attribute step: over the first ten elements that have a data-
\* attribute, data_attributes[attr] = value for each such attribute.
DataStep(doc) ==
    LET HasData(e) == \E i \in 1..Len(e.attrs) : IsDataAttr(e.attrs[i])
        elements_with_data == SelectSeq(doc, HasData)
        first == SubSeq(elements_with_data, 1, Min({10, Len(elements_with_data)}))
        attrs == SelectSeq(ConcatAll([i \in 1..Len(first) |-> first[i].attrs]), IsDataAttr)
        data_attributes == DictOf([i \in 1..Len(attrs) |-> <<attrs[i].name, attrs[i].value>>])
    IN  IF data_attributes = <<>> THEN Nothing ELSE Some(data_attributes)

\* str(e) of the TypeError.
TypeErrorMessage == "the JSON object must be str, bytes or bytearray, not NoneType"

\* extract_agent_info: one try around the five steps.  An exception in the
\* JSON-LD step leaves the keys already set and skips the rest.
extract_agent_info(doc) ==
    IF JsonLdRaises(doc)
    THEN [ EmptyExtracted EXCEPT !.title = TitleStep(doc),
                                 !.meta_tags = MetaStep(doc),
                                 !.extraction_error = Some(TypeErrorMessage) ]
    ELSE [ title |-> TitleStep(doc),
           meta_tags |-> MetaStep(doc),
           structured_data |-> JsonLdStep(doc),
           initial_state |-> StateStep(doc),
           data_attributes |-> DataStep(doc),
           extraction_error |-> Nothing ]

(***************************************************************************)
(* The documents extract_agent_info is run on: up to MaxElems elements.    *)
(***************************************************************************)

MaxElems == 3

JsonA == Dict(<< <<"a", Num(<<"1">>)>> >>)

JsonB == Dict(<< <<"b", Num(<<"2">>)>> >>)

DataAttr(name, value) == [data |-> TRUE, name |-> name, value |-> value]

OtherAttr(name, value) == [data |-> FALSE, name |-> name, value |-> value]

ElemPool ==
    { Title(<<" ", "T", " ">>),
      Meta("description", "", "about"),
      Meta("", "og:title", "T"),
      Script(LdJsonType, Some(Body(Some(JsonA), FALSE, <<>>))),
      Script(LdJsonType, Some(Body(Nothing, FALSE, <<>>))),
      Script(LdJsonType, Nothing),
      Script("", Some(Body(Nothing, TRUE, <<Some(JsonB), Nothing>>))),
      Script("", Nothing),
      Div(<<DataAttr("data-id", "1"), OtherAttr("class", "c")>>) }

DocPool == UNION { [1..n -> ElemPool] : n \in 0..MaxElems }

InitExtract ==
    /\ UrlIdle
    /\ FindIdle
    /\ FetcherIdle
    /\ CliIdle
    /\ SumIdle
    /\ DecodeIdle
    /\ WebIdle
    /\ html_content \in DocPool
    /\ extract_pc = "start"
    /\ extracted_data = EmptyExtracted

CallExtractAgentInfo ==
    /\ extract_pc = "start"
    /\ extracted_data' = extract_agent_info(html_content)
    /\ extract_pc' = "done"
    /\ UNCHANGED html_content
    /\ ExtractFrame

NextExtract == CallExtractAgentInfo

SpecExtract == InitExtract /\ [][NextExtract]_vars

(***************************************************************************)
(* The web viewer (web_viewer.py).  Flask's server runs each request in    *)
(* its own thread, so the statements of the handlers interleave.  The      *)
(* store is the dict agent_data_store: (key, value) pairs in insertion     *)
(* order.  An AgentData is identified by the fetch that created it.        *)
(***************************************************************************)

MaxHandlers == 2

MaxClock == 1

Handlers == 1..MaxHandlers

\* The url field of the posted form: absent or empty, blank, or a URL, also
\* with blanks around it.
FormUrls == { <<>>, <<" ">>, <<"a">>, <<" ", "b", " ">> }

\* jsonify({'error': 'URL is required'}), 400
BadRequest == [status |-> 400, location |-> ""]

\* redirect(url_for('view_agent', timestamp=timestamp))
Redirect(timestamp) == [status |-> 302, location |-> timestamp]

\* str(int(time.time()))
Timestamp(now) == ToString(now)

\* timestamp in agent_data_store
InStore(store, key) == \E i \in 1..Len(store) : store[i][1] = key

\* agent_data_store[timestamp]
Lookup(store, key) == store[CHOOSE i \in 1..Len(store) : store[i][1] = key][2]

InitWeb ==
    /\ UrlIdle
    /\ FindIdle
    /\ FetcherIdle
    /\ CliIdle
    /\ ExtractIdle
    /\ SumIdle
    /\ DecodeIdle
    /\ agent_data_store = <<>>
    /\ clock = 0
    /\ fetches = 0
    /\ store_writes = <<>>
    /\ wpc = [h \in Handlers |-> "start"]
    /\ wurl = [h \in Handlers |-> <<>>]
    /\ wdata = [h \in Handlers |-> Nothing]
    /\ wkey = [h \in Handlers |-> ""]
    /\ wresp = [h \in Handlers |-> Nothing]
    /\ viewed = Nothing

\* fetch_agent: url = request.form.get('url', '').strip(), and the answer
\* 400 for an empty one.
WebReceive ==
    \E h \in Handlers, form_url \in FormUrls :
        /\ wpc[h] = "start"
        /\ wurl' = [wurl EXCEPT ![h] = Strip(form_url)]
        /\ IF Strip(form_url) = <<>>
           THEN /\ wresp' = [wresp EXCEPT ![h] = Some(BadRequest)]
                /\ wpc' = [wpc EXCEPT ![h] = "done"]
           ELSE /\ wresp' = wresp
                /\ wpc' = [wpc EXCEPT ![h] = "fetch"]
        /\ UNCHANGED <<agent_data_store, clock, fetches, store_writes, wdata, wkey,
                       viewed>>
        /\ WebFrame

\* fetch_agent: agent_data = fetcher.fetch_agent_data(url), a new AgentData.
WebFetch ==
    \E h \in Handlers :
        /\ wpc[h] = "fetch"
        /\ fetches' = fetches + 1
        /\ wdata' = [wdata EXCEPT ![h] = Some([url |-> wurl[h], fetch |-> fetches + 1])]
        /\ wpc' = [wpc EXCEPT ![h] = "stamp"]
        /\ UNCHANGED <<agent_data_store, clock, store_writes, wurl, wkey, wresp,
                       viewed>>
        /\ WebFrame

\* fetch_agent: timestamp = str(int(time.time()))
WebStamp ==
    \E h \in Handlers :
        /\ wpc[h] = "stamp"
        /\ wkey' = [wkey EXCEPT ![h] = Timestamp(clock)]
        /\ wpc' = [wpc EXCEPT ![h] = "store"]
        /\ UNCHANGED <<agent_data_store, clock, fetches, store_writes, wurl, wdata,
                       wresp, viewed>>
        /\ WebFrame

\* fetch_agent: agent_data_store[timestamp] = agent_data, and the redirect.
\* store_writes records the assignments in the order they are made.
WebStore ==
    \E h \in Handlers :
        /\ wpc[h] = "store"
        /\ agent_data_store' = DictSet(agent_data_store, wkey[h], wdata[h][1])
        /\ store_writes' = Append(store_writes, <<wkey[h], wdata[h][1]>>)
        /\ wresp' = [wresp EXCEPT ![h] = Some(Redirect(wkey[h]))]
        /\ wpc' = [wpc EXCEPT ![h] = "done"]
        /\ UNCHANGED <<clock, fetches, wurl, wdata, wkey, viewed>>
        /\ WebFrame

\* view_agent, get_agent_data: 404 for a key not in the store, else its
\* value; the store is only read.
WebView ==
    \E now \in 0..MaxClock :
        /\ viewed' = IF InStore(agent_data_store, Timestamp(now))
                     THEN Some([status |-> 200,
                                agent_data |-> Some(Lookup(agent_data_store, Timestamp(now)))])
                     ELSE Some([status |-> 404, agent_data |-> Nothing])
        /\ UNCHANGED <<agent_data_store, clock, fetches, store_writes, wpc, wurl,
                       wdata, wkey, wresp>>
        /\ WebFrame

\* A second passes.
WebTick ==
    /\ clock < MaxClock
    /\ clock' = clock + 1
    /\ UNCHANGED <<agent_data_store, fetches, store_writes, wpc, wurl, wdata, wkey,
                   wresp, viewed>>
    /\ WebFrame

NextWeb ==
    \/ WebReceive
    \/ WebFetch
    \/ WebStamp
    \/ WebStore
    \/ WebView
    \/ WebTick

SpecWeb == InitWeb /\ [][NextWeb]_vars

(***************************************************************************)
(* CursorAgentFetcher.decode_content (cursor_agent_fetcher.py).  A bytes   *)
(* value is a sequence of numbers 0..255, a decoded str the sequence of    *)
(* its code points.  A failed decoding or decompression is Nothing.        *)
(***************************************************************************)

\* One code point in UTF-8.
Utf8Bytes(cp) ==
    IF cp < 128 THEN <<cp>>
    ELSE IF cp < 2048 THEN <<192 + (cp \div 64), 128 + (cp % 64)>>
    ELSE IF cp < 65536
    THEN <<224 + (cp \div 4096), 128 + ((cp \div 64) % 64), 128 + (cp % 64)>>
    ELSE <<240 + (cp \div 262144), 128 + ((cp \div 4096) % 64),
           128 + ((cp \div 64) % 64), 128 + (cp % 64)>>

\* text.encode('utf-8')
Utf8Encode(text) == ConcatAll([i \in 1..Len(text) |-> Utf8Bytes(text[i])])

IsContinuation(b) == 128 <= b /\ b <= 191

\* The number of bytes a sequence starting with byte b has, 0 for a byte
\* that starts none.
Utf8Length(b) ==
    IF b < 128 THEN 1
    ELSE IF 194 <= b /\ b <= 223 THEN 2
    ELSE IF 224 <= b /\ b <= 239 THEN 3
    ELSE IF 240 <= b /\ b <= 244 THEN 4
    ELSE 0

\* The code point of one complete sequence.
Utf8CodePoint(seq) ==
    IF Len(seq) = 1 THEN seq[1]
    ELSE IF Len(seq) = 2 THEN (seq[1] - 192) * 64 + (seq[2] - 128)
    ELSE IF Len(seq) = 3
    THEN (seq[1] - 224) * 4096 + (seq[2] - 128) * 64 + (seq[3] - 128)
    ELSE (seq[1] - 240) * 262144 + (seq[2] - 128) * 4096
            + (seq[3] - 128) * 64 + (seq[4] - 128)

\* The sequence is well formed: continuation bytes, shortest form, no
\* surrogate, at most U+10FFFF.
Utf8WellFormed(seq) ==
    /\ \A i \in 2..Len(seq) : IsContinuation(seq[i])
    /\ Len(seq) = 3 => Utf8CodePoint(seq) >= 2048
    /\ Len(seq) = 3 => ~(55296 <= Utf8CodePoint(seq) /\ Utf8CodePoint(seq) <= 57343)
    /\ Len(seq) = 4 => 65536 <= Utf8CodePoint(seq) /\ Utf8CodePoint(seq) <= 1114111

\* content.decode('utf-8'): Nothing for a UnicodeDecodeError.
RECURSIVE Utf8Decode(_)
Utf8Decode(bytes) ==
    IF bytes = <<>> THEN Some(<<>>)
    ELSE LET n == Utf8Length(Head(bytes))
         IN  IF n = 0 \/ n > Len(bytes) THEN Nothing
             ELSE IF ~Utf8WellFormed(SubSeq(bytes, 1, n)) THEN Nothing
             ELSE IF Utf8Decode(SubSeq(bytes, n + 1, Len(bytes))) = Nothing THEN Nothing
             ELSE Some(<<Utf8CodePoint(SubSeq(bytes, 1, n))>>
                          \o Utf8Decode(SubSeq(bytes, n + 1, Len(bytes)))[1])

\* content.decode('latin-1'): every byte is its code point; it never fails,
\* so the base64 branch below it is never entered.
Latin1Decode(bytes) == [i \in 1..Len(bytes) |-> bytes[i]]

\* A number as four bytes, least significant first.
LittleEndian4(n) ==
    <<n % 256, (n \div 256) % 256, (n \div 65536) % 256, (n \div 16777216) % 256>>

RECURSIVE SumOf(_)
SumOf(bytes) == IF bytes = <<>> THEN 0 ELSE Head(bytes) + SumOf(Tail(bytes))

\* The check value of the gzip trailer.  It stands for CRC-32: a function of
\* the data that a damaged stream does not match.
Checksum(plain) == (SumOf(plain) + 7 * Len(plain)) % 2147483647

GzipMagic == <<31, 139>>

\* Magic, method 8 (deflate), no flags, no mtime, XFL, OS.
GzipHeader == GzipMagic \o <<8, 0, 0, 0, 0, 0, 2, 255>>

\* One final stored deflate block: LEN, its complement, the data.
StoredBlock(plain) ==
    <<1, Len(plain) % 256, Len(plain) \div 256,
      255 - (Len(plain) % 256), 255 - (Len(plain) \div 256)>> \o plain

\* A gzip stream of the data (gzip.compress gives one; which of the valid
\* encodings it is does not matter to the decoder).
gzip_compress(plain) ==
    GzipHeader \o StoredBlock(plain)
        \o LittleEndian4(Checksum(plain)) \o LittleEndian4(Len(plain))

\* gzip.decompress: the data of a well-formed stream, Nothing for any
\* exception (bad header, truncated stream, wrong check value or length).
gzip_decompress(bytes) ==
    LET n == Len(bytes) - Len(GzipHeader) - 5 - 8
        block == SubSeq(bytes, Len(GzipHeader) + 1, Len(bytes) - 8)
        plain == SubSeq(block, 6, Len(block))
    IN  IF n < 0 THEN Nothing
        ELSE IF SubSeq(bytes, 1, Len(GzipHeader)) # GzipHeader THEN Nothing
        ELSE IF SubSeq(block, 1, 5) # SubSeq(StoredBlock(plain), 1, 5) THEN Nothing
        ELSE IF SubSeq(bytes, Len(bytes) - 7, Len(bytes))
                    # LittleEndian4(Checksum(plain)) \o LittleEndian4(Len(plain))
        THEN Nothing
        ELSE Some(plain)

\* content.startswith(b'\x1f\x8b')
StartsWithMagic(bytes) == Len(bytes) >= 2 /\ SubSeq(bytes, 1, 2) = GzipMagic

\* The first step of decode_content: the decompressed content, or the
\* content itself without the magic bytes or when decompression fails.
Decompressed(bytes) ==
    IF StartsWithMagic(bytes) /\ gzip_decompress(bytes) # Nothing
    THEN gzip_decompress(bytes)[1]
    ELSE bytes

\* The second step: UTF-8, else Latin-1.
DecodedText(bytes) ==
    IF Utf8Decode(bytes) # Nothing THEN Utf8Decode(bytes)[1] ELSE Latin1Decode(bytes)

\* decode_content without the gzip step.
decode_content_without_gzip(bytes) == DecodedText(bytes)

decode_content(bytes) == DecodedText(Decompressed(bytes))

(***************************************************************************)
(* The contents decode_content is run on: for each text of at most         *)
(* MaxTextLen code points, its UTF-8 bytes, their gzip stream, that stream *)
(* cut short or with a damaged check value, and the bytes behind the magic *)
(* bytes alone; and bytes that are no UTF-8.                               *)
(***************************************************************************)

MaxTextLen == 2

\* A control character, a letter, a two-byte and a three-byte character.
CodePoints == {31, 65, 139, 8364}

TextPool == UNION { [1..n -> CodePoints] : n \in 0..MaxTextLen }

ContentKinds == {"utf8", "gzip", "truncated", "damaged", "magic", "latin1"}

\* The stream with the first byte of its check value changed.
Damaged(stream) ==
    [i \in 1..Len(stream) |->
        IF i = Len(stream) - 7 THEN (stream[i] + 1) % 256 ELSE stream[i]]

ContentOf(kind, text) ==
    CASE kind = "utf8" -> Utf8Encode(text)
      [] kind = "gzip" -> gzip_compress(Utf8Encode(text))
      [] kind = "truncated" ->
            SubSeq(gzip_compress(Utf8Encode(text)), 1,
                   Len(gzip_compress(Utf8Encode(text))) - 1)
      [] kind = "damaged" -> Damaged(gzip_compress(Utf8Encode(text)))
      [] kind = "magic" -> GzipMagic \o Utf8Encode(text)
      [] OTHER -> <<233>> \o Utf8Encode(text)

InitDecode ==
    /\ UrlIdle
    /\ FindIdle
    /\ FetcherIdle
    /\ CliIdle
    /\ ExtractIdle
    /\ SumIdle
    /\ WebIdle
    /\ source_text \in TextPool
    /\ content_kind \in ContentKinds
    /\ raw_content = ContentOf(content_kind, source_text)
    /\ decode_pc = "start"
    /\ decoded = Nothing

\* One call of decode_content on response.content.
CallDecodeContent ==
    /\ decode_pc = "start"
    /\ decoded' = Some(decode_content(raw_content))
    /\ decode_pc' = "done"
    /\ UNCHANGED <<raw_content, content_kind, source_text>>
    /\ DecodeFrame

NextDecode == CallDecodeContent

SpecDecode == InitDecode /\ [][NextDecode]_vars

(***************************************************************************)
(* Claims about identifier extraction                                      *)
(***************************************************************************)

\* The raw values of the selectedBcId parameters of the URL's query string,
\* in order (read off the text of the URL, not through either extractor).
RECURSIVE SelectedOfPieces(_)
SelectedOfPieces(pieces) ==
    IF pieces = <<>> THEN <<>>
    ELSE LET p == Head(pieces)
             n == Len(ParamNames[1])
         IN  (IF OccursAt(p, ParamNames[1] \o <<"=">>, 1)
              THEN <<SubSeq(p, n + 2, Len(p))>> ELSE <<>>)
                 \o SelectedOfPieces(Tail(pieces))

SelectedBcIdValues(url) == SelectedOfPieces(SplitOn(UrlQuery(url), "&"))

\* Two extraction results name the same identifier, case-insensitively.
SameIdentifier(a, b) == a # NONE /\ b # NONE /\ Lower(a) = Lower(b)

BothExtractorsCalled == url_called = {"parse_bcid_from_url", "extract_agent_id"}

\* C3: for every URL with exactly one selectedBcId query parameter, whose value
\* contains an identifier, both extractors (parse_bcid_from_url and
\* extract_agent_id) return the identifier contained in that value, whatever
\* else the URL holds.
C3_SelectedBcIdWins ==
    BothExtractorsCalled =>
        LET vals == SelectedBcIdValues(url_in)
        IN  (Len(vals) = 1 /\ BcidFound(vals[1])) =>
                /\ SameIdentifier(parsed_bcid, BcidSearch(vals[1]))
                /\ SameIdentifier(extracted_agent_id, BcidSearch(vals[1]))

\* C4: when the identifier grammar occurs nowhere in the URL both extractors
\* return None, and a value either of them returns is an identifier and a
\* substring of the URL.
C4_NoneOrIdentifier ==
    BothExtractorsCalled =>
        /\ ~BcidFound(url_in) => (parsed_bcid = NONE /\ extracted_agent_id = NONE)
        /\ parsed_bcid # NONE => (IsBcid(parsed_bcid) /\ Contains(url_in, parsed_bcid))
        /\ extracted_agent_id # NONE =>
              (IsBcid(extracted_agent_id) /\ Contains(url_in, extracted_agent_id))

\* The part of C3 and C4 that parse_bcid_from_url satisfies on its own: its
\* result is None exactly when the grammar occurs nowhere in the URL, and
\* otherwise an identifier that is a substring of the URL.
ParseBcidSound ==
    "parse_bcid_from_url" \in url_called =>
        /\ (parsed_bcid = NONE) <=> ~BcidFound(url_in)
        /\ parsed_bcid # NONE => (IsBcid(parsed_bcid) /\ Contains(url_in, parsed_bcid))

(***************************************************************************)
(* Claims about the object finder                                          *)
(***************************************************************************)

\* The paths of a tree, as a set: the root, and each child's paths behind the
\* child's key or index.
RECURSIVE PathsOf(_)
PathsOf(node) ==
    {<<>>} \cup
    (IF IsDict(node)
     THEN UNION { { <<node.v[i][1]>> \o q : q \in PathsOf(node.v[i][2]) } :
                  i \in 1..Len(node.v) }
     ELSE IF IsList(node)
     THEN UNION { { << <<i - 1>> >> \o q : q \in PathsOf(node.v[i]) } :
                  i \in 1..Len(node.v) }
     ELSE {})

\* The node a path leads to.
RECURSIVE NodeAt(_, _)
NodeAt(node, path) ==
    IF path = <<>> THEN node
    ELSE IF IsDict(node) THEN NodeAt(ValueOf(node, Head(path)), Tail(path))
    ELSE NodeAt(node.v[Head(path)[1] + 1], Tail(path))

\* The dict node has a string-typed value that contains an identifier.
HasIdentifierString(node) ==
    /\ IsDict(node)
    /\ \E i \in 1..Len(node.v) : IsStr(node.v[i][2]) /\ BcidFound(node.v[i][2].v)

\* The dict node has a string-typed value whose matched identifier is the
\* target, case-insensitively.
HasTargetString(node, target) ==
    /\ IsDict(node)
    /\ \E i \in 1..Len(node.v) :
          /\ IsStr(node.v[i][2])
          /\ BcidFound(node.v[i][2].v)
          /\ Lower(BcidSearch(node.v[i][2].v)) = Lower(target)

DictPaths(tree) == { q \in PathsOf(tree) : IsDict(NodeAt(tree, q)) }

IdentifierPaths(tree) == { q \in PathsOf(tree) : HasIdentifierString(NodeAt(tree, q)) }

\* C1: with a target, every returned node is a dict node of the tree with a
\* string field whose matched identifier equals the target case-insensitively;
\* with no target (None or empty) the result holds exactly the dict nodes with
\* a string value that contains an identifier, one entry for each.
C1_FilterContract ==
    find_pc = "done" =>
        IF Truthy(bcid_filter)
        THEN \A i \in 1..Len(results) :
                /\ \E q \in PathsOf(data) : NodeAt(data, q) = results[i]
                /\ HasTargetString(results[i], bcid_filter)
        ELSE /\ Len(results) = Cardinality(IdentifierPaths(data))
             /\ \A i \in 1..Len(results) :
                   \E q \in IdentifierPaths(data) : NodeAt(data, q) = results[i]
             /\ \A q \in IdentifierPaths(data) :
                   \E i \in 1..Len(results) : results[i] = NodeAt(data, q)

\* C1's case: a target is given, a node is returned for it, and another dict
\* node with an identifier string is left out.
C1_Witness ==
    /\ find_pc = "done"
    /\ Truthy(bcid_filter)
    /\ Len(results) >= 1
    /\ Cardinality(IdentifierPaths(data)) > Len(results)

\* C2: the traversal yields each node of the tree exactly once (no path twice,
\* every path of the tree, each with the node it leads to), and the finder
\* returns no more entries than the tree has dict nodes.
C2_VisitsEachNodeOnce ==
    find_pc = "done" =>
        /\ \A i, j \in 1..Len(visited) : i # j => visited[i][1] # visited[j][1]
        /\ { visited[i][1] : i \in 1..Len(visited) } = PathsOf(data)
        /\ \A i \in 1..Len(visited) : visited[i][2] = NodeAt(data, visited[i][1])
        /\ Len(results) <= Cardinality(DictPaths(data))

\* C2's case: a tree with a list, nested dicts and scalars has been traversed
\* and a match was returned.
C2_Witness ==
    /\ find_pc = "done"
    /\ Len(visited) >= 4
    /\ \E i \in 1..Len(visited) : IsList(visited[i][2]) /\ visited[i][2].v # <<>>
    /\ \E i \in 1..Len(visited) : IsDict(visited[i][2]) /\ visited[i][1] # <<>>
    /\ Len(results) >= 1

\* The place of a step (a key or an index) among the children of a node.
ChildRank(node, step) ==
    IF IsDict(node)
    THEN CHOOSE i \in 1..Len(node.v) : node.v[i][1] = step
    ELSE step[1] + 1

\* Path p comes before path q in depth-first pre-order: p leads to an
\* ancestor of q's node, or where the two paths part p takes the earlier
\* child (key insertion order, index order).
Before(tree, p, q) ==
    /\ p # q
    /\ \/ /\ Len(p) < Len(q)
          /\ SubSeq(q, 1, Len(p)) = p
       \/ \E i \in 1..Min({Len(p), Len(q)}) :
             /\ SubSeq(p, 1, i - 1) = SubSeq(q, 1, i - 1)
             /\ p[i] # q[i]
             /\ LET parent == NodeAt(tree, SubSeq(p, 1, i - 1))
                IN  ChildRank(parent, p[i]) < ChildRank(parent, q[i])

\* The paths of the node occurrences that match: with a target, a string
\* field's identifier is the target; without, a string field has one.
MatchedPaths(tree, filter) ==
    { q \in PathsOf(tree) :
        IF Truthy(filter)
        THEN HasTargetString(NodeAt(tree, q), filter)
        ELSE HasIdentifierString(NodeAt(tree, q)) }

C16_WitnessSeveralFields ==
    /\ find_pc = "done"
    /\ IsDict(data)
    /\ Len(results) = 1
    /\ Cardinality({ i \in 1..Len(data.v) :
                        IsStr(data.v[i][2]) /\ BcidFound(data.v[i][2].v) }) = 2

\* C16's case of sibling order: two different matching objects, the one
\* under the key inserted first (or at the lower index) first.
C16_WitnessSiblings ==
    /\ find_pc = "done"
    /\ Len(results) = 2
    /\ Len(data.v) = 2
    /\ results[1] # results[2]
    /\ results[1] = NodeAt(data, <<visited[2][1][1]>>)
    /\ IF IsDict(data)
       THEN results[1] = data.v[1][2] /\ results[2] = data.v[2][2]
       ELSE results[1] = data.v[1] /\ results[2] = data.v[2]


(***************************************************************************)
(* Claims about the fetcher (cursor_agent_fetcher.py)                      *)
(***************************************************************************)

\* The requests of try_alternative_endpoints: all but main's first one.
AltRequests == SubSeq(requests, 2, Len(requests))

AltReturned200 ==
    /\ AltRequests # <<>>
    /\ AltRequests[Len(AltRequests)].status = Some(200)

\* main's agent_data is the one of the main URL as long as the loop runs and
\* until main has looked at the loop's result; no request is made later.
AltLoopContract ==
    /\ Len(AltRequests) <= 4
    /\ \A i \in DOMAIN AltRequests :
          AltRequests[i].status = Some(200) => i = Len(AltRequests)
    /\ fpc \in {"alt_loop", "alt_sleep", "alt_returned"} =>
          \A i \in DOMAIN AltRequests :
              AltRequests[i].url = alternative_urls(agent_data.agent_id)[i]
    /\ fpc = "alt_sleep" => ~AltReturned200
    /\ fpc = "alt_returned" =>
          IF AltReturned200
          THEN alt_data = last_fetch.value /\ alt_data.status_code = Some(200)
          ELSE alt_data = NoEndpointsData /\ Len(AltRequests) = 4

\* C5: try_alternative_endpoints requests the alternative URLs one at a time
\* in the order of its list, requests none after one has answered 200,
\* returns that first 200 result (the placeholder result when all four have
\* failed), issues at most 4 requests, and always returns.
C5_StopsAtFirst200 ==
    /\ []AltLoopContract
    /\ (fpc = "alt_loop") ~> (fpc = "alt_returned")

\* The loop returned the 200 result of the second alternative URL.
C5_Witness ==
    /\ fpc = "alt_returned"
    /\ Len(AltRequests) = 2
    /\ AltRequests[1].status # Some(200)
    /\ AltReturned200
    /\ alt_data = last_fetch.value

\* C6: main exits with 0 exactly when the result it reports has status 200,
\* which is the case exactly when the main URL or an alternative requested
\* under --try-alternatives answered 200; otherwise it exits with 1, also
\* when the reported result has no status at all.
C6_ExitCode ==
    exit_code # Nothing =>
        /\ printed = Some(agent_data)
        /\ exit_code \in {Some(0), Some(1)}
        /\ exit_code = Some(0) <=> agent_data.status_code = Some(200)
        /\ agent_data.status_code = Some(200) <=>
              \/ requests[1].status = Some(200)
              \/ args.try_alternatives /\ AltReturned200

\* main exits with 0 on the result of an alternative endpoint that replaced
\* the main URL's failed one.
C6_Witness ==
    /\ exit_code = Some(0)
    /\ requests[1].status # Some(200)
    /\ AltReturned200

\* main exits with 1 after a transport failure, the result having no status.
C6_WitnessNoStatus ==
    /\ exit_code = Some(1)
    /\ agent_data.status_code = Nothing

Words(message) == { message[i] : i \in DOMAIN message }

\* C8: fetch_agent_data returns and never raises; an exception during the
\* request (timeout, connection error, any other) becomes an error_message
\* of the result; a response other than 200 gives a result with its status
\* code and a message of its category (404, 403, other), the 403 one
\* containing "forbidden".
C8_NeverRaises ==
    last_outcome # NoOutcome =>
        /\ last_fetch.raised = "none"
        /\ last_outcome.kind # "response" =>
              /\ last_fetch.value.error_message # Nothing
              /\ last_fetch.value.status_code = Nothing
        /\ last_outcome.body = "raises" => last_fetch.value.error_message # Nothing
        /\ last_outcome.kind = "response" /\ last_outcome.status # 200 =>
              /\ last_fetch.value.status_code = Some(last_outcome.status)
              /\ last_fetch.value.error_message # Nothing
              /\ "(404)." \in Words(last_fetch.value.error_message[1])
                    <=> last_outcome.status = 404
              /\ "(403)." \in Words(last_fetch.value.error_message[1])
                    <=> last_outcome.status = 403
              /\ "HTTP" \in Words(last_fetch.value.error_message[1])
                    <=> last_outcome.status \notin {403, 404}
        /\ last_outcome.kind = "response" /\ last_outcome.status = 403 =>
              /\ last_fetch.value.status_code = Some(403)
              /\ "forbidden" \in Words(last_fetch.value.error_message[1])

\* A 403 response came back as a result, no exception raised.
C8_Witness ==
    /\ last_outcome.kind = "response"
    /\ last_outcome.status = 403
    /\ last_fetch.raised = "none"
    /\ last_fetch.value.status_code = Some(403)

\* A call of fetch_agent_data has returned a result.
FetchReturned == requests # <<>> /\ last_fetch.raised = "none"

\* C17: in every result fetch_agent_data returns, a payload is present only
\* with status 200, an error message is present whenever the status is
\* absent or other than 200, and the two are never both present.
C17_PayloadXorError ==
    FetchReturned =>
        LET result == last_fetch.value
        IN  /\ result.data # Nothing => result.status_code = Some(200)
            /\ result.status_code # Some(200) => result.error_message # Nothing
            /\ ~(result.data # Nothing /\ result.error_message # Nothing)

\* C17's case: a call has returned a payload, with status 200 and no error.
C17_Witness ==
    /\ FetchReturned
    /\ last_fetch.value.data # Nothing
    /\ last_fetch.value.status_code = Some(200)
    /\ last_fetch.value.error_message = Nothing

\* C17's case of an exception after the status was set to 200: an error
\* message and no payload.
C17_WitnessErrorWith200 ==
    /\ FetchReturned
    /\ last_fetch.value.status_code = Some(200)
    /\ last_fetch.value.error_message # Nothing
    /\ last_fetch.value.data = Nothing

\* C17's case of no status at all: an error message and no payload.
C17_WitnessNoStatus ==
    /\ FetchReturned
    /\ last_fetch.value.status_code = Nothing
    /\ last_fetch.value.error_message # Nothing
    /\ last_fetch.value.data = Nothing

\* The alternate endpoints are being tried or have been.
AlternativesTried ==
    fpc \in {"alt_loop", "alt_sleep", "alt_returned"} \/ AltRequests # <<>>

\* Alternates are tried only after a main fetch without status 200, with
\* --try-alternatives and with an agent id extracted from the URL.
AlternativesGuarded ==
    AlternativesTried =>
        /\ requests[1].url = args.url
        /\ requests[1].status # Some(200)
        /\ args.try_alternatives
        /\ Truthy(extract_agent_id(args.url))

\* What is printed is an alternate's result with status 200 or, when no
\* alternate answered 200, the result of the main URL: its url, its status
\* and, the status not being 200, its error message; never the placeholder.
\* What is saved is what is printed.
ReportedResult ==
    /\ printed # Nothing =>
          /\ printed = Some(agent_data)
          /\ printed # Some(NoEndpointsData)
          /\ IF AltReturned200
             THEN printed = Some(alt_data) /\ alt_data.status_code = Some(200)
             ELSE /\ printed[1].url = args.url
                  /\ printed[1].status_code = requests[1].status
                  /\ printed[1].status_code # Some(200) =>
                        /\ printed[1].error_message # Nothing
                        /\ printed[1].error_message # Some(NoEndpointsMessage)
    /\ saved # Nothing => args.output /\ saved = printed

\* main's result is the main fetch's result, and the only step that changes
\* it afterwards is the one that takes an alternate's result with status
\* 200; a failed search for alternates leaves it as it is.
MainResultReplacedOnlyBy200 ==
    /\ fpc = "main" => agent_data' = last_fetch'.value /\ agent_data'.url = args.url
    /\ fpc # "main" =>
          \/ agent_data' = agent_data
          \/ /\ fpc = "alt_returned"
             /\ alt_data.status_code = Some(200)
             /\ agent_data' = alt_data
    /\ printed' # printed => printed' = Some(agent_data)
    /\ saved' # saved => saved' = Some(agent_data)

\* C18: alternate endpoints are tried only when the main fetch did not
\* return 200, --try-alternatives was given and an agent id was extracted;
\* the main result is replaced only by an alternate result with status 200,
\* so when every alternate fails the printed and saved result is the main
\* URL's result, never the placeholder result.
C18_MainResultKept ==
    /\ [](AlternativesGuarded /\ ReportedResult)
    /\ [][MainResultReplacedOnlyBy200]_vars

\* C18's case: all four alternates failed, and main's own result, with its
\* error message, has been printed and saved.
C18_Witness ==
    /\ fpc = "done"
    /\ Len(AltRequests) = 4
    /\ ~AltReturned200
    /\ alt_data = NoEndpointsData
    /\ printed # Nothing
    /\ printed[1].url = args.url
    /\ printed[1].error_message # Nothing
    /\ saved = printed

\* C18's case of a replacement: an alternate answered 200 and its result
\* has been printed.
C18_WitnessReplaced ==
    /\ fpc = "done"
    /\ AltReturned200
    /\ printed = Some(alt_data)
    /\ printed[1].url # args.url

\* C18's case of no agent id: the main fetch failed, --try-alternatives was
\* given, and no alternate was requested.
C18_WitnessNoAgentId ==
    /\ fpc = "done"
    /\ args.try_alternatives
    /\ ~Truthy(extract_agent_id(args.url))
    /\ requests[1].status # Some(200)
    /\ Len(requests) = 1

(***************************************************************************)
(* Claims about summarize_object                                           *)
(***************************************************************************)

\* C10: the summary has at most len(keys_of_interest) + 10 = 22 fields, each
\* of them a field of the object with the object's value for it, and the
\* object is the same after the call as before.
C10_SummaryOfObject ==
    sum_pc = "done" =>
        /\ Len(summary.v) <= Len(keys_of_interest) + 10
        /\ Len(keys_of_interest) + 10 = 22
        /\ \A i \in 1..Len(summary.v) :
              /\ HasKey(obj_after, summary.v[i][1])
              /\ summary.v[i][2] = ValueOf(obj_after, summary.v[i][1])
        /\ obj_after = obj

\* An object of more than 22 fields has been summarised, by the allowlist
\* alone.
C10_Witness ==
    /\ sum_pc = "done"
    /\ Len(obj.v) > 22
    /\ Len(summary.v) = Len(keys_of_interest)

\* An object of two allowlisted fields and more than ten others has been
\* summarised.
C10_WitnessHeuristic ==
    /\ sum_pc = "done"
    /\ Len(AllowlistCopy(obj)) = 2
    /\ Len(obj.v) > 12
    /\ Len(summary.v) > 2

\* The place of a key among the keys of a dict.
PositionIn(o, key) == CHOOSE i \in 1..Len(o.v) : o.v[i][1] = key

IsAllowlisted(key) == \E i \in 1..Len(keys_of_interest) : keys_of_interest[i] = key

\* The fields of the summary that follow the allowlist copy.
FurtherFields == SubSeq(summary.v, Len(AllowlistCopy(obj)) + 1, Len(summary.v))

\* C11: after at most 2 allowlist entries the summary goes on with at most
\* 10 further fields of the object, none of them copied before, in the
\* object's key order; after 3 or more it holds allowlisted fields only.
\* For {id, name, extra1..extra15} it holds id, name and at most 10 of the
\* extraN fields in their order.
C11_HeuristicCopy ==
    sum_pc = "done" =>
        /\ SubSeq(summary.v, 1, Len(AllowlistCopy(obj))) = AllowlistCopy(obj)
        /\ Len(AllowlistCopy(obj)) <= 2 =>
              /\ Len(FurtherFields) <= 10
              /\ \A i \in 1..Len(FurtherFields) :
                    /\ HasKey(obj, FurtherFields[i][1])
                    /\ FurtherFields[i][2] = ValueOf(obj, FurtherFields[i][1])
                    /\ \A j \in 1..Len(AllowlistCopy(obj)) :
                          AllowlistCopy(obj)[j][1] # FurtherFields[i][1]
              /\ \A i, j \in 1..Len(FurtherFields) :
                    i < j => PositionIn(obj, FurtherFields[i][1])
                                < PositionIn(obj, FurtherFields[j][1])
        /\ Len(AllowlistCopy(obj)) >= 3 =>
              \A i \in 1..Len(summary.v) : IsAllowlisted(summary.v[i][1])
        /\ obj = ExampleObject =>
              /\ summary.v[1][1] = "id"
              /\ summary.v[2][1] = "name"
              /\ Len(FurtherFields) <= 10
              /\ \A i \in 1..Len(FurtherFields) : FurtherFields[i][1] = ExtraKey(i)

\* The object {id, name, extra1..extra15} has been summarised, with further
\* fields after id and name.
C11_Witness ==
    /\ sum_pc = "done"
    /\ obj = ExampleObject
    /\ Len(FurtherFields) > 0

\* An object of 3 allowlisted fields and other fields has been summarised.
C11_WitnessAllowlistOnly ==
    /\ sum_pc = "done"
    /\ Len(AllowlistCopy(obj)) = 3
    /\ Len(obj.v) > 3

(***************************************************************************)
(* Claims about the second CLI (cursor_agents_cli.main)                    *)
(***************************************************************************)

\* The request failed: a transport error, or an error status (400 to 599).
RequestFailed(response) ==
    response.kind # "response" \/ response.status >= 400

\* No usable payload on the page: no tag, an empty text, a text that is no
\* JSON, or the JSON text null.
PayloadMissing(page) ==
    \/ ~page.tag
    \/ page.text \in {"empty", "invalid"}
    \/ page.text = "json" /\ page.value = Null

C7_WitnessHttpError ==
    /\ cli_exit = Some(2)
    /\ cli_response.kind = "response"

C7_WitnessNoPayload ==
    /\ cli_exit = Some(3)
    /\ cli_response.status = 200

\* C12: the file written for --output holds what the run prints: the
\* sequence of matched objects for the formats json and pretty, the sequence
\* of their summaries for summary.
C12_FileHoldsPrinted ==
    cli_pc = "done" /\ cli_file # Nothing /\ cli_stdout # Nothing =>
        /\ cli_file[1].t = "list"
        /\ cli_file[1].v = cli_stdout[1].value

\* What does hold: the file holds the whole __NEXT_DATA__ value, whatever
\* the format and the matches.
FileHoldsPayload ==
    cli_file # Nothing => cli_args.output /\ cli_file = Some(cli_data)

(***************************************************************************)
(* Claims about extract_agent_info                                         *)
(***************************************************************************)

\* C9: the five sub-extractions are independent: whatever fails in one, the
\* result holds what each of the others finds in the document, and the
\* failure is recorded as extraction_error.
C9_IndependentSteps ==
    extract_pc = "done" =>
        /\ extracted_data.title = TitleStep(html_content)
        /\ extracted_data.meta_tags = MetaStep(html_content)
        /\ ~JsonLdRaises(html_content) =>
              extracted_data.structured_data = JsonLdStep(html_content)
        /\ extracted_data.initial_state = StateStep(html_content)
        /\ extracted_data.data_attributes = DataStep(html_content)
        /\ JsonLdRaises(html_content) <=> extracted_data.extraction_error # Nothing

\* What does hold: a failure is recorded and not propagated, and the result
\* keeps what the steps before the failing one have set.
ExtractKeepsEarlierSteps ==
    extract_pc = "done" =>
        /\ extracted_data.title = TitleStep(html_content)
        /\ extracted_data.meta_tags = MetaStep(html_content)
        /\ JsonLdRaises(html_content) <=> extracted_data.extraction_error # Nothing
        /\ JsonLdRaises(html_content) =>
              /\ extracted_data.structured_data = Nothing
              /\ extracted_data.initial_state = Nothing
              /\ extracted_data.data_attributes = Nothing

\* The values of the ld+json scripts of a document whose body parses as
\* JSON, in document order.
ParsedLdBodies(doc) ==
    LET IsLdParsed(e) ==
            /\ e.tag = "script"
            /\ e.type = LdJsonType
            /\ e.string # Nothing
            /\ e.string[1].json # Nothing
        parsed == SelectSeq(doc, IsLdParsed)
    IN  [i \in 1..Len(parsed) |-> parsed[i].string[1].json[1]]

\* The JSON-LD sequence of a result; no structured_data key is the empty one.
JsonLdSequence(result) ==
    IF result.structured_data = Nothing THEN <<>> ELSE result.structured_data[1]

\* C15: for any document the JSON-LD sequence holds exactly the parsed
\* bodies of the ld+json scripts whose body parses as JSON, in document
\* order; a script whose body does not parse adds no entry and no error.
C15_JsonLdSequence ==
    extract_pc = "done" =>
        /\ JsonLdSequence(extracted_data) = ParsedLdBodies(html_content)
        /\ extracted_data.extraction_error = Nothing

\* What does hold: the same for the documents whose ld+json scripts all
\* have a body; one ld+json script without a body leaves no sequence at all
\* and an error.
JsonLdSequenceWithBodies ==
    extract_pc = "done" =>
        IF JsonLdRaises(html_content)
        THEN /\ extracted_data.structured_data = Nothing
             /\ extracted_data.extraction_error # Nothing
        ELSE /\ JsonLdSequence(extracted_data) = ParsedLdBodies(html_content)
             /\ extracted_data.extraction_error = Nothing

\* The scenario of two ld+json scripts, {"a":1} and a body that is no JSON:
\* exactly one entry.
JsonLdScenario ==
    /\ extract_pc = "done"
    /\ html_content = << Script(LdJsonType, Some(Body(Some(JsonA), FALSE, <<>>))),
                         Script(LdJsonType, Some(Body(Nothing, FALSE, <<>>))) >>
    /\ extracted_data.structured_data = Some(<<JsonA>>)
    /\ extracted_data.extraction_error = Nothing

(***************************************************************************)
(* Claims about the web viewer                                             *)
(***************************************************************************)

\* The last assignment made to a key.
LastWrite(key) ==
    store_writes[CHOOSE i \in 1..Len(store_writes) :
                    /\ store_writes[i][1] = key
                    /\ \A j \in (i + 1)..Len(store_writes) : store_writes[j][1] # key]

\* The store holds, for every key written, the value of the last assignment
\* to it, and nothing else; a value assigned earlier to that key is in the
\* store no more.
LastWriterWins ==
    /\ \A i \in 1..Len(store_writes) :
          /\ InStore(agent_data_store, store_writes[i][1])
          /\ Lookup(agent_data_store, store_writes[i][1])
                = LastWrite(store_writes[i][1])[2]
          /\ store_writes[i] # LastWrite(store_writes[i][1]) =>
                \A k \in 1..Len(agent_data_store) :
                    agent_data_store[k][2] # store_writes[i][2]
    /\ \A k \in 1..Len(agent_data_store) :
          \E i \in 1..Len(store_writes) : store_writes[i][1] = agent_data_store[k][1]
    /\ \A k, l \in 1..Len(agent_data_store) :
          agent_data_store[k][1] = agent_data_store[l][1] => k = l

\* No step removes a key from the store.
NeverEvicted ==
    \A k \in 1..Len(agent_data_store) : InStore(agent_data_store', agent_data_store[k][1])

\* A step that answers 400 leaves the store as it is.
BadRequestKeepsStore ==
    (\E h \in Handlers : wresp[h] = Nothing /\ wresp'[h] = Some(BadRequest))
        => agent_data_store' = agent_data_store

\* A handler answers 400 exactly for a url that is empty once stripped, and
\* has then fetched and stored nothing.
EmptyUrlRejected ==
    \A h \in Handlers :
        /\ wresp[h] = Some(BadRequest) <=> wpc[h] = "done" /\ wurl[h] = <<>>
        /\ wresp[h] = Some(BadRequest) => wdata[h] = Nothing

\* C13: under every interleaving of /fetch handlers the store maps each key
\* to the result of the last fetch that wrote it, an earlier result under
\* the same key being lost; no entry is ever removed; a /fetch with an empty
\* url answers 400 and leaves the store unchanged.
C13_LastWriterWins ==
    /\ [](LastWriterWins /\ EmptyUrlRejected)
    /\ [][NeverEvicted /\ BadRequestKeepsStore]_vars

\* Two fetches have written the same key: the store has one entry, with the
\* second one's result.
C13_Witness ==
    /\ Len(store_writes) = 2
    /\ store_writes[1][1] = store_writes[2][1]
    /\ store_writes[1][2] # store_writes[2][2]
    /\ Len(agent_data_store) = 1
    /\ agent_data_store[1][2] = store_writes[2][2]

\* The handler that took its key first has written last.
C13_WitnessOvertaken ==
    /\ Len(store_writes) = 2
    /\ store_writes[1][1] = Timestamp(1)
    /\ store_writes[2][1] = Timestamp(0)

(***************************************************************************)
(* Claims about decode_content                                             *)
(***************************************************************************)

\* C14: the gzip stream of a text's UTF-8 bytes decodes to the text; UTF-8
\* bytes that are no gzip stream decode to the text unchanged; when the
\* content has the magic bytes and decompression fails, the original bytes
\* are decoded and a string is returned all the same.
C14_RoundTrip ==
    decode_pc = "done" =>
        /\ decoded # Nothing
        /\ content_kind = "gzip" =>
              /\ StartsWithMagic(raw_content)
              /\ decoded = Some(source_text)
        /\ content_kind = "utf8" =>
              /\ ~StartsWithMagic(raw_content)
              /\ decoded = Some(source_text)
        /\ StartsWithMagic(raw_content) /\ gzip_decompress(raw_content) = Nothing =>
              decoded = Some(DecodedText(raw_content))

\* A text with a multi-byte character has gone through gzip and the decoder.
C14_Witness ==
    /\ decode_pc = "done"
    /\ content_kind = "gzip"
    /\ Len(source_text) = MaxTextLen
    /\ Len(Utf8Encode(source_text)) > Len(source_text)
    /\ decoded = Some(source_text)

\* A stream with the magic bytes that does not decompress was decoded.
C14_WitnessFailure ==
    /\ decode_pc = "done"
    /\ content_kind = "truncated"
    /\ decoded = Some(Latin1Decode(raw_content))

====
